---- MODULE Spec2Model ----
(***************************************************************************)
(* Chef-assistant: a React Native client over a hosted database.           *)
(* The model has the database tables of one user (profiles, ingredients,   *)
(* utensils, user_preferences, recipes), the database function that cooks  *)
(* a recipe, and, for every device the user is logged in on, the screen    *)
(* the device shows with that screen's React state.  An async handler is   *)
(* split at its database await: the step that starts the request and the   *)
(* step in which the database executes it and the handler resumes.         *)
(***************************************************************************)
EXTENDS Integers, Sequences, FiniteSets, TLC

\* ---------------------------------------------------------------- bounds
Devices == {"d1", "d2"}
MaxIngredientId == 3
MaxUtensilId == 1
MaxRecipeId == 2
MaxPending == 1
MaxEvents == 2

\* ------------------------------------------------------- program constants
UNITS == {"g", "kg"}
NaN == 0 - 99
DuplicateKey == "23505"

VARIABLES
  \* database rows of the user
  profiles, ingredients, utensils, user_preferences, recipes,
  nextIngredientId, nextUtensilId, nextRecipeId,
  \* per device: auth session, mounted screen, open confirmation dialog,
  \* requests in flight, last notification shown
  session, screen, dialog, pending, alert,
  \* per device: the state of AuthProvider and the deliveries it awaits
  auth,
  \* per device: the useState values of the screens
  loading, saving, deleting, cooking,
  recipe, recipesList, ingredientsList, utensilsList, generated, preferences,
  \* history: last routing decision of handleLogin per device, and the number
  \* of times each recipe's ingredients were subtracted
  routed, cooked

inventory == <<ingredients, utensils, nextIngredientId, nextUtensilId>>
recipeTable == <<recipes, nextRecipeId>>
db == <<profiles, inventory, user_preferences, recipeTable>>
flags == <<loading, saving, deleting, cooking>>
lists == <<recipesList, ingredientsList, utensilsList, generated, preferences>>
ui == <<session, auth, screen, dialog, pending, alert, flags, recipe, lists>>
vars == <<db, ui, routed, cooked>>

\* -------------------------------------------------------------- helpers
\* AuthProvider after its first render and its effect: session and user null,
\* loading true, getSession() called, the listener subscribed, no event yet.
NoSession == "null"
Sessions == {NoSession, "session1", "session2"}

\* session?.user ?? null
UserOf(s) ==
  CASE s = "session1" -> "user1"
    [] s = "session2" -> "user2"
    [] OTHER -> "null"

InitialAuth ==
  [session |-> NoSession, user |-> "null", loading |-> TRUE,
   current |-> NoSession, getSession |-> <<"called">>, events |-> <<>>,
   emitted |-> 0, lastEvent |-> <<>>]

Range(s) == {s[i] : i \in 1..Len(s)}

NoDialog == [kind |-> "none", id |-> 0]
NoAlert == <<"", "">>
NoRecipe == [id |-> 0, title |-> "", ingredients |-> <<>>, is_used |-> FALSE]

\* Text typed into a form field or produced by the recipe generator, and the
\* JavaScript conversions the handlers apply to it.
trim(s) ==
  CASE s = " Flour" -> "Flour"
    [] s = " " -> ""
    [] OTHER -> s

parseFloat(s) ==
  CASE s = "1" -> 1
    [] s = "2" -> 2
    [] s = "0" -> 0
    [] s = "-1" -> 0 - 1
    [] OTHER -> NaN

isNaN(x) == x = NaN

\* The recipes the generator can return: quantity is a string (ai.ts).
Pancakes == [title |-> "Pancakes",
             ingredients |-> <<[name |-> "Flour", quantity |-> "1"]>>]
Cake == [title |-> "Cake",
         ingredients |-> <<[name |-> "Flour", quantity |-> "2"],
                           [name |-> "Sugar", quantity |-> "1"]>>]
Syrup == [title |-> "Syrup",
          ingredients |-> <<[name |-> "Sugar", quantity |-> "2 cups"]>>]
GeneratedRecipe == {Pancakes, Cake, Syrup}

\* ------------------------------------------------------ database (server)
\* profiles and user_preferences hold at most one row for the user.
HasProfile == profiles # {}
OnboardingComplete == \E p \in profiles : p.onboarding_complete

\* unique_ingredient_for_user / unique_utensil_for_user on (user_id, name)
UniqueNames(rows) == \A a, b \in rows : a.name = b.name => a = b

\* The text -> numeric cast the database applies to a recipe quantity.
numeric(q) == parseFloat(q)

RecipeRows(rid) == {r \in recipes : r.id = rid}
StockRows(name) == {g \in ingredients : g.name = name}

Sufficient(item) ==
  \E g \in StockRows(item.name) : g.quantity >= numeric(item.quantity)

\* Indices of the recipe's ingredients that are missing or short, in the
\* order the recipe lists them.
Shortfalls(r) ==
  {i \in 1..Len(r.ingredients) : ~Sufficient(r.ingredients[i])}

FirstShortfall(r) ==
  CHOOSE i \in Shortfalls(r) : \A j \in Shortfalls(r) : i <= j

Required(r, name) ==
  LET hits == {i \in 1..Len(r.ingredients) : r.ingredients[i].name = name}
  IN IF hits = {} THEN 0 ELSE numeric(r.ingredients[CHOOSE i \in hits : TRUE].quantity)

\* select_recipe_and_subtract_ingredients(recipe_id_to_use): what it decides.
CookOutcome(rid) ==
  IF RecipeRows(rid) = {} THEN "NotFound"
  ELSE LET r == CHOOSE x \in RecipeRows(rid) : TRUE IN
    IF r.is_used THEN "AlreadyUsed"
    ELSE IF \E i \in 1..Len(r.ingredients) : isNaN(numeric(r.ingredients[i].quantity))
      THEN "Exception"
    ELSE IF Shortfalls(r) # {} THEN "Insufficient"
    ELSE "Success"

\* ... the text it returns (an exception surfaces as the error of the call) ...
CookReply(rid) ==
  LET o == CookOutcome(rid) IN
  CASE o = "Success" ->
         [error |-> FALSE, data |-> <<"Success", "Ingredients have been subtracted.">>]
    [] o = "AlreadyUsed" ->
         [error |-> FALSE, data |-> <<"Error", "Recipe already used">>]
    [] o = "NotFound" ->
         [error |-> FALSE, data |-> <<"Error", "Recipe not found">>]
    [] o = "Insufficient" ->
         LET r == CHOOSE x \in RecipeRows(rid) : TRUE IN
         [error |-> FALSE,
          data |-> <<"Error", "Insufficient ingredient",
                     r.ingredients[FirstShortfall(r)].name>>]
    [] OTHER -> [error |-> TRUE, data |-> <<>>]

\* (mutant) only the ingredient the recipe lists first is subtracted.
SubtractFirstOnly(rid) ==
  IF CookOutcome(rid) = "Success"
  THEN LET r == CHOOSE x \in RecipeRows(rid) : TRUE IN
       {IF g.name = r.ingredients[1].name
        THEN [g EXCEPT !.quantity = g.quantity - Required(r, g.name)]
        ELSE g : g \in ingredients}
  ELSE ingredients

\* ... and the rows it leaves behind, committed as one transaction.
SubtractIngredients(rid) ==
  IF CookOutcome(rid) = "Success"
  THEN LET r == CHOOSE x \in RecipeRows(rid) : TRUE IN
       {[g EXCEPT !.quantity = g.quantity - Required(r, g.name)] : g \in ingredients}
  ELSE ingredients

\* (mutant) the function forgets to set is_used.
MarkUsedNever(rid) == recipes

MarkUsed(rid) ==
  IF CookOutcome(rid) = "Success"
  THEN {IF r.id = rid THEN [r EXCEPT !.is_used = TRUE] ELSE r : r \in recipes}
  ELSE recipes

\* ------------------------------------------------------------ the client
\* What a request meets on its way: it is executed and answered, it never
\* reaches the database, or it is executed and the answer is lost.
Network == {"ok", "lost_request", "lost_response"}
\* A handler that first awaits auth.getUser() can also find no user.
AuthNetwork == Network \cup {"no_user"}
CanSend(d) == Cardinality(pending[d]) < MaxPending
Executed(net) == net # "lost_request"
Failure == [error |-> TRUE, data |-> <<>>]

\* A screen that is popped or replaced unmounts: the handlers it left running
\* still resume, but their setState calls no longer reach a component.
Unmount(reqs, scr) ==
  {IF q.screen = scr THEN [q EXCEPT !.mounted = FALSE] ELSE q : q \in reqs}

\* Alert.alert is modal: nothing on the screen can be tapped while a
\* notification or a confirmation dialog is open.
Idle(d) == dialog[d] = NoDialog /\ alert[d] = NoAlert

\* OK on a notification.
Dismiss(d) ==
  /\ alert[d] # NoAlert
  /\ alert' = [alert EXCEPT ![d] = NoAlert]
  /\ UNCHANGED <<db, session, auth, screen, dialog, pending, flags, recipe, lists,
                 routed, cooked>>

\* (mutant) the handler only tests that the call returned some text.
startsWithAnything(data, prefix) == Len(data) > 0

startsWith(data, prefix) == Len(data) > 0 /\ data[1] = prefix

\* -- dashboard (DashboardScreen)
\* router.push/replace('/dashboard'): the screen mounts and its effect starts
\* fetchRecipes.
MountDashboard(d, reqs) ==
  /\ screen' = [screen EXCEPT ![d] = "dashboard"]
  /\ loading' = [loading EXCEPT ![d] = TRUE]
  /\ deleting' = [deleting EXCEPT ![d] = 0]
  /\ recipesList' = [recipesList EXCEPT ![d] = {}]
  /\ pending' = [pending EXCEPT ![d] =
       reqs \cup {[op |-> "fetchRecipes", screen |-> "dashboard", mounted |-> TRUE]}]

fetchRecipes(d, net) ==
  \E q \in pending[d] :
    /\ q.op = "fetchRecipes"
    /\ pending' = [pending EXCEPT ![d] = @ \ {q}]
    /\ IF net = "ok" /\ session[d]
       THEN /\ alert' = alert
            /\ recipesList' = IF q.mounted THEN [recipesList EXCEPT ![d] = recipes]
                              ELSE recipesList
       ELSE /\ alert' = [alert EXCEPT ![d] =
                 <<"Error", "Failed to load recipes. Please try again.">>]
            /\ recipesList' = recipesList
    /\ loading' = IF q.mounted THEN [loading EXCEPT ![d] = FALSE] ELSE loading
    /\ UNCHANGED <<db, session, auth, screen, dialog, saving, deleting, cooking, recipe,
                   ingredientsList, utensilsList, generated, preferences, routed, cooked>>

handleViewRecipe(d) ==
  /\ screen[d] = "dashboard"
  /\ ~loading[d]
  /\ Idle(d)
  /\ \E r \in recipesList[d] :
       recipe' = [recipe EXCEPT ![d] = r]
  /\ screen' = [screen EXCEPT ![d] = "saved-recipe-detail"]
  /\ cooking' = [cooking EXCEPT ![d] = FALSE]
  /\ UNCHANGED <<db, session, auth, dialog, pending, alert, loading, saving, deleting,
                 lists, routed, cooked>>

\* -- saved recipe detail (SavedRecipeDetailScreen)
\* The Back control pops the detail screen; the dashboard below it is the
\* instance that pushed it, with the list it had fetched.
SavedRecipeBack(d) ==
  /\ screen[d] = "saved-recipe-detail"
  /\ Idle(d)
  /\ screen' = [screen EXCEPT ![d] = "dashboard"]
  /\ pending' = [pending EXCEPT ![d] = Unmount(@, "saved-recipe-detail")]
  /\ recipe' = [recipe EXCEPT ![d] = NoRecipe]
  /\ cooking' = [cooking EXCEPT ![d] = FALSE]
  /\ UNCHANGED <<db, session, auth, dialog, alert, loading, saving, deleting, lists,
                 routed, cooked>>

\* Tap on "Cook This Recipe": the confirmation dialog opens.
handleCookRecipe(d) ==
  /\ screen[d] = "saved-recipe-detail"
  /\ ~recipe[d].is_used
  /\ ~cooking[d]
  /\ Idle(d)
  /\ dialog' = [dialog EXCEPT ![d] = [kind |-> "Cook Recipe", id |-> recipe[d].id]]
  /\ UNCHANGED <<db, session, auth, screen, pending, alert, flags, recipe, lists,
                 routed, cooked>>

\* (mutant) Cancel closes the dialog and the call is sent all the same.
CookCancelSends(d) ==
  /\ dialog[d].kind = "Cook Recipe"
  /\ dialog' = [dialog EXCEPT ![d] = NoDialog]
  /\ pending' = [pending EXCEPT ![d] = @ \cup
       {[op |-> "cook", screen |-> "saved-recipe-detail", mounted |-> TRUE,
         recipe_id_to_use |-> dialog[d].id]}]
  /\ UNCHANGED <<db, session, auth, screen, alert, flags, recipe, lists, routed, cooked>>

CookCancel(d) ==
  /\ dialog[d].kind = "Cook Recipe"
  /\ dialog' = [dialog EXCEPT ![d] = NoDialog]
  /\ UNCHANGED <<db, session, auth, screen, pending, alert, flags, recipe, lists,
                 routed, cooked>>

\* (mutant) the handler passes the id of another saved recipe.
CookArgumentOther(d) == IF dialog[d].id = 1 THEN 2 ELSE 1

\* The recipe id the handler passes to the database function: recipe.id of
\* the screen instance whose Cook button opened the dialog.
CookArgument(d) == dialog[d].id

\* "Cook" in the dialog: setCooking(true) and the call is sent.  The dialog
\* outlives its screen when a call sent earlier replaces the screen by the
\* dashboard.
CookPress(d) ==
  /\ dialog[d].kind = "Cook Recipe"
  /\ CanSend(d)
  /\ dialog' = [dialog EXCEPT ![d] = NoDialog]
  /\ cooking' = IF screen[d] = "saved-recipe-detail"
                THEN [cooking EXCEPT ![d] = TRUE] ELSE cooking
  /\ pending' = [pending EXCEPT ![d] = @ \cup
       {[op |-> "cook", screen |-> "saved-recipe-detail",
         mounted |-> (screen[d] = "saved-recipe-detail"),
         recipe_id_to_use |-> CookArgument(d)]}]
  /\ UNCHANGED <<db, session, auth, screen, alert, loading, saving, deleting, recipe,
                 lists, routed, cooked>>

\* (mutant) a refusal is shown with the fixed text, not with the text the
\* function returned.
CookAlertFixedText(reply) ==
  IF reply.error
    THEN <<"Error", "Failed to cook recipe. Please try again.">>
  ELSE IF startsWith(reply.data, "Success")
    THEN <<"Success", "Ingredients have been subtracted from your inventory. Enjoy your meal!">>
  ELSE <<"Error", "Failed to cook recipe. Please check your ingredients.">>

\* The notification the handler shows for the reply of the call: a thrown
\* error, the success text, or the returned text (data || fixed text).
CookAlert(reply) ==
  IF reply.error
    THEN <<"Error", "Failed to cook recipe. Please try again.">>
  ELSE IF startsWith(reply.data, "Success")
    THEN <<"Success", "Ingredients have been subtracted from your inventory. Enjoy your meal!">>
  ELSE IF reply.data # <<>> THEN <<"Error">> \o reply.data
  ELSE <<"Error", "Failed to cook recipe. Please check your ingredients.">>

\* (mutant) every reply without a transport error counts as a success.
CookSucceededNoError(reply) == ~reply.error

\* if (error) throw error; if (data && data.startsWith('Success')).
CookSucceeded(reply) == ~reply.error /\ startsWith(reply.data, "Success")

\* handleCookRecipe resumes with the reply of the call q: the notification,
\* router.replace('/dashboard') on success, setCooking(false) in finally.
CookResume(d, q, reply) ==
  /\ alert' = [alert EXCEPT ![d] = CookAlert(reply)]
  /\ IF CookSucceeded(reply)
     THEN /\ MountDashboard(d, Unmount(pending[d] \ {q}, screen[d]))
          /\ cooking' = [cooking EXCEPT ![d] = FALSE]
          /\ recipe' = [recipe EXCEPT ![d] = NoRecipe]
     ELSE /\ pending' = [pending EXCEPT ![d] = @ \ {q}]
          /\ cooking' = IF q.mounted THEN [cooking EXCEPT ![d] = FALSE] ELSE cooking
          /\ UNCHANGED <<screen, loading, deleting, recipesList, recipe>>

\* The database runs the function for the call q and the handler resumes
\* with the reply.
CookCall(d, q, net) ==
    /\ q \in pending[d]
    /\ q.op = "cook"
    /\ LET rid == q.recipe_id_to_use
           run == Executed(net) /\ session[d]
           reply == IF net = "ok" /\ session[d] THEN CookReply(rid) ELSE Failure
       IN
       /\ ingredients' = IF run THEN SubtractIngredients(rid) ELSE ingredients
       /\ recipes' = IF run THEN MarkUsed(rid) ELSE recipes
       /\ cooked' = IF run /\ CookOutcome(rid) = "Success"
                    THEN [cooked EXCEPT ![rid] = @ + 1] ELSE cooked
       /\ CookResume(d, q, reply)
    /\ UNCHANGED <<profiles, utensils, user_preferences, nextIngredientId,
                   nextUtensilId, nextRecipeId, session, auth, dialog, saving,
                   ingredientsList, utensilsList, generated, preferences, routed>>

\* The handler resumes with a reply of any shape, whatever the function did
\* to produce it.
CookReplied(d, reply) ==
  \E q \in pending[d] :
    /\ q.op = "cook"
    /\ CookResume(d, q, reply)
    /\ UNCHANGED <<db, session, auth, dialog, saving, ingredientsList, utensilsList,
                   generated, preferences, routed, cooked>>

CookRecipe(d, net) == \E q \in pending[d] : CookCall(d, q, net)

\* -- onboarding/ingredients (OnboardingIngredients)
\* What the user can type into the ingredient form.
NameTexts == {"Flour", " Flour", "Sugar", "Eggs", ""}
QuantityTexts == {"1", "2", "0", "abc"}
UnitTexts == UNITS \cup {""}

\* router.push('/onboarding/ingredients'): the screen mounts and its effect
\* starts loadIngredients.
MountIngredients(d, reqs) ==
  /\ screen' = [screen EXCEPT ![d] = "onboarding/ingredients"]
  /\ loading' = [loading EXCEPT ![d] = FALSE]
  /\ ingredientsList' = [ingredientsList EXCEPT ![d] = {}]
  /\ pending' = [pending EXCEPT ![d] = reqs \cup
       {[op |-> "loadIngredients", screen |-> "onboarding/ingredients", mounted |-> TRUE]}]

loadIngredients(d, net) ==
  \E q \in pending[d] :
    /\ q.op = "loadIngredients"
    /\ pending' = [pending EXCEPT ![d] = @ \ {q}]
    /\ ingredientsList' =
         IF ~q.mounted THEN ingredientsList
         ELSE IF net = "no_user" THEN [ingredientsList EXCEPT ![d] = {}]
         ELSE IF net = "ok" THEN [ingredientsList EXCEPT ![d] = ingredients]
         ELSE ingredientsList
    /\ UNCHANGED <<db, session, auth, screen, dialog, alert, flags, recipe, recipesList,
                   utensilsList, generated, preferences, routed, cooked>>

\* Cancel in the modal, or "Enter an ingredient": resetForm clears the flag.
resetForm(d) ==
  /\ screen[d] \in {"onboarding/ingredients", "onboarding/utensils"}
  /\ Idle(d)
  /\ loading[d]
  /\ loading' = [loading EXCEPT ![d] = FALSE]
  /\ UNCHANGED <<db, session, auth, screen, dialog, pending, alert, saving, deleting,
                 cooking, recipe, lists, routed, cooked>>

\* The row the form sends (ingredientData).
ingredientData(name, quantity, unit) ==
  [name |-> trim(name), quantity |-> quantity, unit |-> trim(unit)]

\* (mutant) the form only rejects text that is not a number.
InvalidQuantityNaNOnly(quantity) == isNaN(quantity)

\* if (isNaN(quantity) || quantity <= 0)
InvalidQuantity(quantity) == isNaN(quantity) \/ quantity <= 0

\* Save in the modal.  editing is the id of the card whose Edit opened the
\* modal, 0 when "Enter an ingredient" opened it.
handleSaveIngredient(d, editing, name, quantityText, unit) ==
  /\ screen[d] = "onboarding/ingredients"
  /\ ~loading[d]
  /\ Idle(d)
  /\ editing = 0 \/ \E g \in ingredientsList[d] : g.id = editing
  /\ LET quantity == parseFloat(quantityText) IN
     IF name = "" \/ quantityText = "" \/ unit = ""
     THEN /\ alert' = [alert EXCEPT ![d] = <<"Error", "Please fill in all fields">>]
          /\ UNCHANGED <<loading, pending>>
     ELSE IF InvalidQuantity(quantity)
     THEN /\ alert' = [alert EXCEPT ![d] = <<"Error", "Please enter a valid quantity">>]
          /\ UNCHANGED <<loading, pending>>
     ELSE /\ CanSend(d)
          /\ loading' = [loading EXCEPT ![d] = TRUE]
          /\ pending' = [pending EXCEPT ![d] = @ \cup
               {[op |-> "saveIngredient", screen |-> "onboarding/ingredients",
                 mounted |-> TRUE, editing |-> editing,
                 data |-> ingredientData(name, quantity, unit)]}]
          /\ alert' = alert
  /\ UNCHANGED <<db, session, auth, screen, dialog, saving, deleting, cooking, recipe,
                 lists, routed, cooked>>

\* from('ingredients').insert(row): the unique constraint rejects a name the
\* user already has with code 23505.
InsertIngredientError(row) ==
  IF StockRows(row.name) # {} THEN DuplicateKey ELSE ""

\* (mutant) the handler writes with upsert, as the database guide does:
\* the row of that name takes the new values.
UpsertIngredient(row) ==
  IF StockRows(row.name) # {}
  THEN {IF g.name = row.name
        THEN [g EXCEPT !.quantity = row.quantity, !.unit = row.unit]
        ELSE g : g \in ingredients}
  ELSE ingredients \cup {[id |-> nextIngredientId, name |-> row.name,
                          quantity |-> row.quantity, unit |-> row.unit]}

InsertIngredient(row) ==
  IF InsertIngredientError(row) # "" THEN ingredients
  ELSE ingredients \cup {[id |-> nextIngredientId, name |-> row.name,
                          quantity |-> row.quantity, unit |-> row.unit]}

\* from('ingredients').update(row).eq('id', id)
UpdateIngredientError(id, row) ==
  IF /\ \E g \in ingredients : g.id = id
     /\ \E g \in StockRows(row.name) : g.id # id
  THEN DuplicateKey ELSE ""

UpdateIngredient(id, row) ==
  IF UpdateIngredientError(id, row) # "" THEN ingredients
  ELSE {IF g.id = id
        THEN [id |-> id, name |-> row.name, quantity |-> row.quantity, unit |-> row.unit]
        ELSE g : g \in ingredients}

\* (mutant) the handler has no special case for the duplicate-key code.
isDuplicateKeyNever(code) == FALSE

\* result.error.code === '23505'
isDuplicateKey(code) == code = DuplicateKey

\* The database executes the write q and handleSaveIngredient resumes.
\* (mutant) the early return of the duplicate branch leaves without running
\* the finally block.
LoadingAfterSaveReturnSkips(d, q, duplicate) ==
  IF q.mounted /\ ~duplicate THEN [loading EXCEPT ![d] = FALSE] ELSE loading

\* finally { setLoading(false) }: it runs on every way out of the try block,
\* the return of the duplicate branch included.
LoadingAfterSave(d, q, duplicate) ==
  IF q.mounted THEN [loading EXCEPT ![d] = FALSE] ELSE loading

SaveIngredientCall(d, q, net) ==
    /\ q \in pending[d]
    /\ q.op = "saveIngredient"
    /\ LET run == Executed(net) /\ net # "no_user"
           code == IF q.editing # 0 THEN UpdateIngredientError(q.editing, q.data)
                   ELSE InsertIngredientError(q.data)
           inserted == run /\ q.editing = 0 /\ code = ""
           failed == net # "ok" \/ code # ""
           duplicate == net = "ok" /\ isDuplicateKey(code)
       IN
       /\ inserted => nextIngredientId <= MaxIngredientId
       /\ ingredients' = IF ~run THEN ingredients
                         ELSE IF q.editing # 0 THEN UpdateIngredient(q.editing, q.data)
                         ELSE InsertIngredient(q.data)
       /\ nextIngredientId' = IF inserted THEN nextIngredientId + 1 ELSE nextIngredientId
       /\ alert' = IF duplicate
                     THEN [alert EXCEPT ![d] = <<"Duplicate Ingredient",
                       "You already have this ingredient in your inventory. Please use a different name or edit the existing one.">>]
                   ELSE IF failed
                     THEN [alert EXCEPT ![d] = <<"Error", "Failed to save ingredient">>]
                   ELSE alert
       /\ pending' = [pending EXCEPT ![d] =
            IF failed THEN @ \ {q}
            ELSE (@ \ {q}) \cup {[op |-> "loadIngredients", screen |-> q.screen,
                                  mounted |-> q.mounted]}]
       /\ loading' = LoadingAfterSave(d, q, duplicate)
    /\ UNCHANGED <<profiles, utensils, nextUtensilId, user_preferences, recipeTable,
                   session, auth, screen, dialog, saving, deleting, cooking, recipe,
                   recipesList, ingredientsList, utensilsList, generated, preferences, routed, cooked>>

SaveIngredient(d, net) == \E q \in pending[d] : SaveIngredientCall(d, q, net)

\* Tap on a card's Delete: the confirmation dialog opens; its Delete callback
\* closes over the list of the render in which the card was tapped.
handleDeleteIngredient(d) ==
  /\ screen[d] = "onboarding/ingredients"
  /\ Idle(d)
  /\ \E g \in ingredientsList[d] :
       dialog' = [dialog EXCEPT ![d] =
         [kind |-> "Delete Ingredient", id |-> g.id, list |-> ingredientsList[d]]]
  /\ UNCHANGED <<db, session, auth, screen, pending, alert, flags, recipe, lists,
                 routed, cooked>>

DeleteIngredientCancel(d) ==
  /\ dialog[d].kind = "Delete Ingredient"
  /\ dialog' = [dialog EXCEPT ![d] = NoDialog]
  /\ UNCHANGED <<db, session, auth, screen, pending, alert, flags, recipe, lists,
                 routed, cooked>>

\* "Delete" in the dialog: the delete is sent; nothing on the screen records
\* that it is in flight.
DeleteIngredientSend(d) ==
  /\ dialog[d].kind = "Delete Ingredient"
  /\ dialog' = [dialog EXCEPT ![d] = NoDialog]
  /\ pending' = [pending EXCEPT ![d] = @ \cup
       {[op |-> "deleteIngredient", screen |-> "onboarding/ingredients",
         mounted |-> TRUE, id |-> dialog[d].id, list |-> dialog[d].list]}]
  /\ UNCHANGED <<db, session, auth, screen, alert, flags, recipe, lists, routed, cooked>>

DeleteIngredientPress(d) == CanSend(d) /\ DeleteIngredientSend(d)

DeleteIngredient(d, net) ==
  \E q \in pending[d] :
    /\ q.op = "deleteIngredient"
    /\ pending' = [pending EXCEPT ![d] = @ \ {q}]
    /\ ingredients' = IF Executed(net) THEN {g \in ingredients : g.id # q.id}
                      ELSE ingredients
    /\ ingredientsList' =
         IF net = "ok" /\ q.mounted
         THEN [ingredientsList EXCEPT ![d] = {g \in q.list : g.id # q.id}]
         ELSE ingredientsList
    /\ UNCHANGED <<profiles, utensils, nextIngredientId, nextUtensilId,
                   user_preferences, recipeTable, session, auth, screen, dialog, alert,
                   flags, recipe, recipesList, utensilsList, generated, preferences, routed, cooked>>

\* -- onboarding/utensils (OnboardingUtensils)
UtensilTexts == {"Pan", " "}

\* The screens a Continue, a View or a successful save leaves below are not
\* returned to: their state is dropped and what they left running counts as
\* unmounted.
MountUtensils(d, reqs) ==
  /\ screen' = [screen EXCEPT ![d] = "onboarding/utensils"]
  /\ loading' = [loading EXCEPT ![d] = FALSE]
  /\ utensilsList' = [utensilsList EXCEPT ![d] = {}]
  /\ pending' = [pending EXCEPT ![d] = reqs \cup
       {[op |-> "loadUtensils", screen |-> "onboarding/utensils", mounted |-> TRUE]}]

\* (mutant) the Continue control opens with two ingredients listed.
IngredientsContinueDisabledTwo(d) == Cardinality(ingredientsList[d]) < 2

\* disabled={ingredients.length < 3}
IngredientsContinueDisabled(d) == Cardinality(ingredientsList[d]) < 3

IngredientsContinue(d) ==
  /\ screen[d] = "onboarding/ingredients"
  /\ Idle(d)
  /\ ~IngredientsContinueDisabled(d)
  /\ MountUtensils(d, Unmount(pending[d], screen[d]))
  /\ ingredientsList' = [ingredientsList EXCEPT ![d] = {}]
  /\ UNCHANGED <<db, session, auth, dialog, alert, saving, deleting, cooking, recipe,
                 recipesList, generated, preferences, routed, cooked>>

loadUtensils(d, net) ==
  \E q \in pending[d] :
    /\ q.op = "loadUtensils"
    /\ pending' = [pending EXCEPT ![d] = @ \ {q}]
    /\ utensilsList' =
         IF ~q.mounted THEN utensilsList
         ELSE IF net = "no_user" THEN [utensilsList EXCEPT ![d] = {}]
         ELSE IF net = "ok" THEN [utensilsList EXCEPT ![d] = utensils]
         ELSE utensilsList
    /\ UNCHANGED <<db, session, auth, screen, dialog, alert, flags, recipe, recipesList,
                   ingredientsList, generated, preferences, routed, cooked>>

handleSaveUtensil(d, editing, name) ==
  /\ screen[d] = "onboarding/utensils"
  /\ ~loading[d]
  /\ Idle(d)
  /\ editing = 0 \/ \E u \in utensilsList[d] : u.id = editing
  /\ IF trim(name) = ""
     THEN /\ alert' = [alert EXCEPT ![d] = <<"Error", "Please enter a utensil name">>]
          /\ UNCHANGED <<loading, pending>>
     ELSE /\ CanSend(d)
          /\ loading' = [loading EXCEPT ![d] = TRUE]
          /\ pending' = [pending EXCEPT ![d] = @ \cup
               {[op |-> "saveUtensil", screen |-> "onboarding/utensils",
                 mounted |-> TRUE, editing |-> editing,
                 data |-> [name |-> trim(name)]]}]
          /\ alert' = alert
  /\ UNCHANGED <<db, session, auth, screen, dialog, saving, deleting, cooking, recipe,
                 lists, routed, cooked>>

UtensilRows(name) == {u \in utensils : u.name = name}

InsertUtensilError(row) ==
  IF UtensilRows(row.name) # {} THEN DuplicateKey ELSE ""

UpdateUtensilError(id, row) ==
  IF /\ \E u \in utensils : u.id = id
     /\ \E u \in UtensilRows(row.name) : u.id # id
  THEN DuplicateKey ELSE ""

SaveUtensil(d, net) ==
  \E q \in pending[d] :
    /\ q.op = "saveUtensil"
    /\ LET run == Executed(net) /\ net # "no_user"
           code == IF q.editing # 0 THEN UpdateUtensilError(q.editing, q.data)
                   ELSE InsertUtensilError(q.data)
           inserted == run /\ q.editing = 0 /\ code = ""
           failed == net # "ok" \/ code # ""
       IN
       /\ inserted => nextUtensilId <= MaxUtensilId
       /\ utensils' =
            IF ~run \/ code # "" THEN utensils
            ELSE IF q.editing # 0
              THEN {IF u.id = q.editing THEN [id |-> u.id, name |-> q.data.name]
                    ELSE u : u \in utensils}
            ELSE utensils \cup {[id |-> nextUtensilId, name |-> q.data.name]}
       /\ nextUtensilId' = IF inserted THEN nextUtensilId + 1 ELSE nextUtensilId
       /\ alert' = IF failed
                     THEN [alert EXCEPT ![d] = <<"Error", "Failed to save utensil">>]
                   ELSE alert
       /\ pending' = [pending EXCEPT ![d] =
            IF failed THEN @ \ {q}
            ELSE (@ \ {q}) \cup {[op |-> "loadUtensils", screen |-> q.screen,
                                  mounted |-> q.mounted]}]
       /\ loading' = IF q.mounted THEN [loading EXCEPT ![d] = FALSE] ELSE loading
    /\ UNCHANGED <<profiles, ingredients, nextIngredientId, user_preferences,
                   recipeTable, session, auth, screen, dialog, saving, deleting, cooking,
                   recipe, recipesList, ingredientsList, utensilsList, generated, preferences,
                   routed, cooked>>

handleDeleteUtensil(d) ==
  /\ screen[d] = "onboarding/utensils"
  /\ Idle(d)
  /\ \E u \in utensilsList[d] :
       dialog' = [dialog EXCEPT ![d] =
         [kind |-> "Delete Utensil", id |-> u.id, list |-> utensilsList[d]]]
  /\ UNCHANGED <<db, session, auth, screen, pending, alert, flags, recipe, lists,
                 routed, cooked>>

DeleteUtensilCancel(d) ==
  /\ dialog[d].kind = "Delete Utensil"
  /\ dialog' = [dialog EXCEPT ![d] = NoDialog]
  /\ UNCHANGED <<db, session, auth, screen, pending, alert, flags, recipe, lists,
                 routed, cooked>>

DeleteUtensilPress(d) ==
  /\ dialog[d].kind = "Delete Utensil"
  /\ CanSend(d)
  /\ dialog' = [dialog EXCEPT ![d] = NoDialog]
  /\ pending' = [pending EXCEPT ![d] = @ \cup
       {[op |-> "deleteUtensil", screen |-> "onboarding/utensils",
         mounted |-> TRUE, id |-> dialog[d].id, list |-> dialog[d].list]}]
  /\ UNCHANGED <<db, session, auth, screen, alert, flags, recipe, lists, routed, cooked>>

DeleteUtensil(d, net) ==
  \E q \in pending[d] :
    /\ q.op = "deleteUtensil"
    /\ pending' = [pending EXCEPT ![d] = @ \ {q}]
    /\ utensils' = IF Executed(net) THEN {u \in utensils : u.id # q.id} ELSE utensils
    /\ utensilsList' =
         IF net = "ok" /\ q.mounted
         THEN [utensilsList EXCEPT ![d] = {u \in q.list : u.id # q.id}]
         ELSE utensilsList
    /\ UNCHANGED <<profiles, ingredients, nextIngredientId, nextUtensilId,
                   user_preferences, recipeTable, session, auth, screen, dialog, alert,
                   flags, recipe, recipesList, ingredientsList, generated, preferences, routed,
                   cooked>>

\* -- onboarding/tastes (OnboardingTastes)
\* What the user can have selected on the preferences form when pressing
\* Continue: diets joined with ',', the tastes, the difficulty.
PreferenceForms ==
  {[diet |-> "Vegan", tastes |-> {"Italian"}, preferred_difficulty |-> "Easy"],
   [diet |-> "", tastes |-> {"Italian"}, preferred_difficulty |-> "Easy"],
   [diet |-> "Vegan", tastes |-> {}, preferred_difficulty |-> ""]}

isFormValid(f) ==
  f.diet # "" /\ f.tastes # {} /\ f.preferred_difficulty # ""

\* useState<UserPreferences>: the form of a freshly mounted screen.
DefaultPreferences == [diet |-> "", tastes |-> {}, preferred_difficulty |-> ""]

\* disabled={utensils.length < 1}
UtensilsContinueDisabled(d) == Cardinality(utensilsList[d]) < 1

UtensilsContinue(d) ==
  /\ screen[d] = "onboarding/utensils"
  /\ Idle(d)
  /\ ~UtensilsContinueDisabled(d)
  /\ screen' = [screen EXCEPT ![d] = "onboarding/tastes"]
  /\ loading' = [loading EXCEPT ![d] = FALSE]
  /\ pending' = [pending EXCEPT ![d] = Unmount(@, screen[d]) \cup
       {[op |-> "loadPreferences", screen |-> "onboarding/tastes", mounted |-> TRUE]}]
  /\ utensilsList' = [utensilsList EXCEPT ![d] = {}]
  /\ preferences' = [preferences EXCEPT ![d] = DefaultPreferences]
  /\ UNCHANGED <<db, session, auth, dialog, alert, saving, deleting, cooking,
                 recipe, recipesList, ingredientsList, generated, routed, cooked>>

\* The effect of the mounted screen: the read of the user's preference row
\* answers.  loadPreferences is declared outside the component, where
\* setPreferences is not in scope: when a row comes back, the call throws a
\* ReferenceError, the catch logs it, and the form keeps what it held.
loadPreferences(d, net) ==
  \E q \in pending[d] :
    /\ q.op = "loadPreferences"
    /\ pending' = [pending EXCEPT ![d] = @ \ {q}]
    /\ UNCHANGED <<db, session, auth, screen, dialog, alert, flags, recipe, lists,
                   routed, cooked>>

\* disabled={!isFormValid() || loading}
CompleteDisabled(d, f) == ~isFormValid(f) \/ loading[d]

\* Tap on "Complete Setup" with the form holding f.
handleComplete(d, f) ==
  /\ screen[d] = "onboarding/tastes"
  /\ ~CompleteDisabled(d, f)
  /\ Idle(d)
  /\ IF ~isFormValid(f)
     THEN /\ alert' = [alert EXCEPT ![d] = <<"Error", "Please fill in all required fields">>]
          /\ UNCHANGED <<loading, pending>>
     ELSE /\ CanSend(d)
          /\ loading' = [loading EXCEPT ![d] = TRUE]
          /\ pending' = [pending EXCEPT ![d] = @ \cup
               {[op |-> "savePreferences", screen |-> "onboarding/tastes",
                 mounted |-> TRUE, data |-> f]}]
          /\ alert' = alert
  /\ preferences' = [preferences EXCEPT ![d] = f]
  /\ UNCHANGED <<db, session, auth, screen, dialog, saving, deleting, cooking, recipe,
                 recipesList, ingredientsList, utensilsList, generated, routed,
                 cooked>>

\* router.push('/onboarding/recipes'): RecipesScreen mounts with loading true
\* and its effect starts generateRecipes.
MountRecipes(d, reqs) ==
  /\ screen' = [screen EXCEPT ![d] = "onboarding/recipes"]
  /\ loading' = [loading EXCEPT ![d] = TRUE]
  /\ saving' = [saving EXCEPT ![d] = ""]
  /\ generated' = [generated EXCEPT ![d] = {}]
  /\ pending' = [pending EXCEPT ![d] = reqs \cup
       {[op |-> "generateRecipes", screen |-> "onboarding/recipes", mounted |-> TRUE]}]

\* The upsert on user_preferences replaces the user's row; handleComplete
\* resumes.
SavePreferences(d, net) ==
  \E q \in pending[d] :
    /\ q.op = "savePreferences"
    /\ q.screen = "onboarding/tastes"
    /\ user_preferences' = IF Executed(net) /\ net # "no_user"
                           THEN {q.data} ELSE user_preferences
    /\ IF net = "ok"
       THEN /\ MountRecipes(d, pending[d] \ {q})
            /\ alert' = alert
       ELSE /\ alert' = [alert EXCEPT ![d] = <<"Error", "Failed to save preferences">>]
            /\ pending' = [pending EXCEPT ![d] = @ \ {q}]
            /\ loading' = [loading EXCEPT ![d] = FALSE]
            /\ UNCHANGED <<screen, saving, generated>>
    /\ UNCHANGED <<profiles, inventory, recipeTable, session, auth, dialog, deleting,
                   cooking, recipe, recipesList, ingredientsList, utensilsList, preferences,
                   routed, cooked>>

\* -- onboarding/recipes (RecipesScreen)
\* What aiService.generateRecipes can return: two candidates.
GeneratorOutputs == {c \in SUBSET GeneratedRecipe : Cardinality(c) = 2}

\* generateRecipes reads the inventory and the preference row and calls the
\* generator; any failure (no preference row included) alerts and goes back.
generateRecipes(d, net, outputs) ==
  \E q \in pending[d] :
    /\ q.op = "generateRecipes"
    /\ q.screen = "onboarding/recipes"
    /\ pending' = [pending EXCEPT ![d] = @ \ {q}]
    /\ loading' = [loading EXCEPT ![d] = FALSE]
    /\ IF net = "ok" /\ user_preferences # {}
       THEN /\ \E out \in outputs :
                 generated' = [generated EXCEPT ![d] = out]
            /\ UNCHANGED <<alert, screen>>
       ELSE /\ alert' = [alert EXCEPT ![d] =
                 <<"Error", "Failed to generate recipes. Please try again.">>]
            /\ screen' = [screen EXCEPT ![d] = "onboarding/tastes"]
            /\ generated' = generated
    /\ UNCHANGED <<db, session, auth, dialog, saving, deleting, cooking, recipe,
                   recipesList, ingredientsList, utensilsList, preferences, routed, cooked>>

\* View on a generated card (RecipesScreen and CreateRecipeScreen).
ViewGeneratedRecipe(d) ==
  /\ screen[d] \in {"onboarding/recipes", "create-recipe"}
  /\ ~loading[d]
  /\ Idle(d)
  /\ \E g \in generated[d] : recipe' = [recipe EXCEPT ![d] = g]
  /\ screen' = [screen EXCEPT ![d] = "recipe-detail"]
  /\ saving' = [saving EXCEPT ![d] = ""]
  /\ generated' = [generated EXCEPT ![d] = {}]
  /\ pending' = [pending EXCEPT ![d] = Unmount(@, screen[d])]
  /\ UNCHANGED <<db, session, auth, dialog, alert, loading, deleting, cooking,
                 recipesList, ingredientsList, utensilsList, preferences, routed, cooked>>

\* Save on a generated card or on the recipe detail: setSaving and the insert
\* is sent.  marks tells whether this handler goes on to update the profile.
StartSave(d, g, marks) ==
  /\ Idle(d)
  /\ CanSend(d)
  /\ saving' = [saving EXCEPT ![d] = g.title]
  /\ pending' = [pending EXCEPT ![d] = @ \cup
       {[op |-> "saveRecipe", screen |-> screen[d], mounted |-> TRUE,
         recipe |-> g, marks |-> marks]}]
  /\ UNCHANGED <<db, session, auth, screen, dialog, alert, loading, deleting, cooking,
                 recipe, lists, routed, cooked>>

\* RecipesScreen.handleSaveRecipe
OnboardingSaveRecipe(d) ==
  /\ screen[d] = "onboarding/recipes"
  /\ ~loading[d]
  /\ \E g \in generated[d] :
       /\ saving[d] # g.title
       /\ StartSave(d, g, TRUE)

\* RecipeDetailScreen.handleSaveRecipe
DetailSaveRecipe(d) ==
  /\ screen[d] = "recipe-detail"
  /\ saving[d] = ""
  /\ StartSave(d, recipe[d], TRUE)

\* CreateRecipeScreen.handleSaveRecipe
CreateSaveRecipe(d) ==
  /\ screen[d] = "create-recipe"
  /\ \E g \in generated[d] :
       /\ saving[d] # g.title
       /\ StartSave(d, g, FALSE)

\* (mutant) the row is inserted as already used.
RecipeRowUsed(g) ==
  [id |-> nextRecipeId, title |-> g.title, ingredients |-> g.ingredients,
   is_used |-> TRUE]

\* The row handleSaveRecipe inserts.
RecipeRow(g) ==
  [id |-> nextRecipeId, title |-> g.title, ingredients |-> g.ingredients,
   is_used |-> FALSE]

\* The success alert of handleSaveRecipe, with its OK button.
SavedAlert == [kind |-> "Success", id |-> 0, message |-> "Recipe saved successfully!"]

\* (mutant) handleSaveRecipe does not look at the error of the insert.
InsertFailedIgnored(net) == FALSE

\* if (error) throw error, after the insert (getUser yielding no user throws
\* before it).
InsertFailed(net) == net # "ok"

\* The insert into recipes is executed and handleSaveRecipe resumes: on an
\* error it alerts; otherwise it goes on to the profile update, or, on the
\* create-recipe screen, shows the success alert.
SaveRecipeCall(d, q, net) ==
    /\ q \in pending[d]
    /\ q.op = "saveRecipe"
    /\ LET run == Executed(net) /\ net # "no_user" IN
       /\ run => nextRecipeId <= MaxRecipeId
       /\ recipes' = IF run THEN recipes \cup {RecipeRow(q.recipe)} ELSE recipes
       /\ nextRecipeId' = IF run THEN nextRecipeId + 1 ELSE nextRecipeId
       /\ cooked' = cooked
       /\ IF InsertFailed(net)
          THEN /\ alert' = [alert EXCEPT ![d] =
                    <<"Error", "Failed to save recipe. Please try again.">>]
               /\ pending' = [pending EXCEPT ![d] = @ \ {q}]
               /\ saving' = IF q.mounted THEN [saving EXCEPT ![d] = ""] ELSE saving
               /\ dialog' = dialog
          ELSE IF q.marks
          THEN /\ pending' = [pending EXCEPT ![d] =
                    (@ \ {q}) \cup {[q EXCEPT !.op = "markOnboardingComplete"]}]
               /\ UNCHANGED <<alert, saving, dialog>>
          ELSE /\ alert' = alert
               /\ dialog' = [dialog EXCEPT ![d] = SavedAlert]
               /\ pending' = [pending EXCEPT ![d] = @ \ {q}]
               /\ saving' = IF q.mounted THEN [saving EXCEPT ![d] = ""] ELSE saving
    /\ UNCHANGED <<profiles, inventory, user_preferences, session, auth, screen, loading,
                   deleting, cooking, recipe, lists, routed>>

SaveRecipe(d, net) == \E q \in pending[d] : SaveRecipeCall(d, q, net)

\* (mutant) the update flips the flag instead of setting it.
MarkToggled == {[p EXCEPT !.onboarding_complete = ~@] : p \in profiles}

\* from('profiles').update({ onboarding_complete: true }).eq('id', user.id)
MarkComplete == {[p EXCEPT !.onboarding_complete = TRUE] : p \in profiles}

\* The profile update is executed; its result is not looked at, only a
\* thrown error reaches the catch.
MarkOnboardingComplete(d, net, thrown) ==
  \E q \in pending[d] :
    /\ q.op = "markOnboardingComplete"
    /\ thrown => net # "ok"
    /\ profiles' = IF Executed(net) THEN MarkComplete ELSE profiles
    /\ pending' = [pending EXCEPT ![d] = @ \ {q}]
    /\ saving' = IF q.mounted THEN [saving EXCEPT ![d] = ""] ELSE saving
    /\ IF thrown
       THEN /\ alert' = [alert EXCEPT ![d] =
                 <<"Error", "Failed to save recipe. Please try again.">>]
            /\ dialog' = dialog
       ELSE /\ alert' = alert
            /\ dialog' = [dialog EXCEPT ![d] = SavedAlert]
    /\ UNCHANGED <<inventory, user_preferences, recipeTable, session, auth, screen,
                   loading, deleting, cooking, recipe, lists, routed, cooked>>

\* OK on the success alert: router.replace('/dashboard').
SavedAlertOK(d) ==
  /\ dialog[d] = SavedAlert
  /\ dialog' = [dialog EXCEPT ![d] = NoDialog]
  /\ MountDashboard(d, Unmount(pending[d], screen[d]))
  /\ saving' = [saving EXCEPT ![d] = ""]
  /\ recipe' = [recipe EXCEPT ![d] = NoRecipe]
  /\ generated' = [generated EXCEPT ![d] = {}]
  /\ UNCHANGED <<db, session, auth, alert, cooking, ingredientsList, utensilsList, preferences,
                 routed, cooked>>

\* -- create-recipe (CreateRecipeScreen)
handleCreateNewRecipe(d) ==
  /\ screen[d] = "dashboard"
  /\ ~loading[d]
  /\ Idle(d)
  /\ screen' = [screen EXCEPT ![d] = "create-recipe"]
  /\ saving' = [saving EXCEPT ![d] = ""]
  /\ generated' = [generated EXCEPT ![d] = {}]
  /\ recipesList' = [recipesList EXCEPT ![d] = {}]
  /\ deleting' = [deleting EXCEPT ![d] = 0]
  /\ pending' = [pending EXCEPT ![d] = Unmount(@, screen[d])]
  /\ UNCHANGED <<db, session, auth, dialog, alert, loading, cooking,
                 recipe, ingredientsList, utensilsList, preferences, routed, cooked>>

\* Generate Recipes: reads the inventory names and calls the generator.
CreateGenerateRecipes(d, net, outputs) ==
  /\ screen[d] = "create-recipe"
  /\ Idle(d)
  /\ IF net = "ok"
     THEN /\ \E out \in outputs :
               generated' = [generated EXCEPT ![d] = out]
          /\ alert' = alert
     ELSE /\ alert' = [alert EXCEPT ![d] =
               <<"Error", "Failed to generate recipes. Please try again.">>]
          /\ generated' = generated
  /\ UNCHANGED <<db, session, auth, screen, dialog, pending, flags, recipe, recipesList,
                 ingredientsList, utensilsList, preferences, routed, cooked>>

\* Save Preferences: the form may hold no diet, no taste, no difficulty.
CreatePreferenceForms ==
  PreferenceForms \cup {[diet |-> "", tastes |-> {}, preferred_difficulty |-> ""]}

handleSavePreferences(d, f) ==
  /\ screen[d] = "create-recipe"
  /\ ~loading[d]
  /\ Idle(d)
  /\ CanSend(d)
  /\ loading' = [loading EXCEPT ![d] = TRUE]
  /\ pending' = [pending EXCEPT ![d] = @ \cup
       {[op |-> "savePreferences", screen |-> "create-recipe", mounted |-> TRUE,
         data |-> f]}]
  /\ UNCHANGED <<db, session, auth, screen, dialog, alert, saving, deleting, cooking,
                 recipe, lists, routed, cooked>>

CreateSavePreferences(d, net) ==
  \E q \in pending[d] :
    /\ q.op = "savePreferences"
    /\ q.screen = "create-recipe"
    /\ user_preferences' = IF Executed(net) /\ net # "no_user"
                           THEN {q.data} ELSE user_preferences
    /\ alert' = [alert EXCEPT ![d] =
         IF net = "ok" THEN <<"Success", "Preferences saved successfully!">>
         ELSE <<"Error", "Failed to save preferences. Please try again.">>]
    /\ pending' = [pending EXCEPT ![d] = @ \ {q}]
    /\ loading' = IF q.mounted THEN [loading EXCEPT ![d] = FALSE] ELSE loading
    /\ UNCHANGED <<profiles, inventory, recipeTable, session, auth, screen, dialog,
                   saving, deleting, cooking, recipe, lists, routed, cooked>>

\* -- dashboard: delete
handleDeleteRecipe(d) ==
  /\ screen[d] = "dashboard"
  /\ ~loading[d]
  /\ Idle(d)
  /\ \E r \in recipesList[d] :
       /\ deleting[d] # r.id
       /\ dialog' = [dialog EXCEPT ![d] = [kind |-> "Delete Recipe", id |-> r.id]]
  /\ UNCHANGED <<db, session, auth, screen, pending, alert, flags, recipe, lists,
                 routed, cooked>>

DeleteRecipeCancel(d) ==
  /\ dialog[d].kind = "Delete Recipe"
  /\ dialog' = [dialog EXCEPT ![d] = NoDialog]
  /\ UNCHANGED <<db, session, auth, screen, pending, alert, flags, recipe, lists,
                 routed, cooked>>

DeleteRecipePress(d) ==
  /\ dialog[d].kind = "Delete Recipe"
  /\ CanSend(d)
  /\ dialog' = [dialog EXCEPT ![d] = NoDialog]
  /\ deleting' = [deleting EXCEPT ![d] = dialog[d].id]
  /\ pending' = [pending EXCEPT ![d] = @ \cup
       {[op |-> "deleteRecipe", screen |-> "dashboard", mounted |-> TRUE,
         id |-> dialog[d].id]}]
  /\ UNCHANGED <<db, session, auth, screen, alert, loading, saving, cooking, recipe,
                 lists, routed, cooked>>

DeleteRecipe(d, net) ==
  \E q \in pending[d] :
    /\ q.op = "deleteRecipe"
    /\ pending' = [pending EXCEPT ![d] = @ \ {q}]
    /\ recipes' = IF Executed(net) THEN {r \in recipes : r.id # q.id} ELSE recipes
    /\ recipesList' =
         IF net = "ok" /\ q.mounted
         THEN [recipesList EXCEPT ![d] = {r \in @ : r.id # q.id}]
         ELSE recipesList
    /\ alert' = [alert EXCEPT ![d] =
         IF net = "ok" THEN <<"Success", "Recipe deleted successfully.">>
         ELSE <<"Error", "Failed to delete recipe. Please try again.">>]
    /\ deleting' = IF q.mounted THEN [deleting EXCEPT ![d] = 0] ELSE deleting
    /\ UNCHANGED <<profiles, inventory, user_preferences, nextRecipeId, session, auth,
                   screen, dialog, loading, saving, cooking, recipe,
                   ingredientsList, utensilsList, generated, preferences, routed, cooked>>

\* -- index, register, login
Home(d, to) ==
  /\ screen[d] = "index"
  /\ Idle(d)
  /\ to \in {"login", "register"}
  /\ screen' = [screen EXCEPT ![d] = to]
  /\ loading' = [loading EXCEPT ![d] = FALSE]
  /\ UNCHANGED <<db, session, auth, dialog, pending, alert, saving, deleting, cooking,
                 recipe, lists, routed, cooked>>

handleRegister(d) ==
  /\ screen[d] = "register"
  /\ ~loading[d]
  /\ Idle(d)
  /\ CanSend(d)
  /\ loading' = [loading EXCEPT ![d] = TRUE]
  /\ pending' = [pending EXCEPT ![d] = @ \cup
       {[op |-> "signUp", screen |-> "register", mounted |-> TRUE]}]
  /\ UNCHANGED <<db, session, auth, screen, dialog, alert, saving, deleting, cooking,
                 recipe, lists, routed, cooked>>

\* auth.signUp: a new account makes the database trigger create the profile
\* row, with onboarding_complete false.
SignUp(d, net) ==
  \E q \in pending[d] :
    /\ q.op = "signUp"
    /\ LET created == Executed(net) /\ profiles = {} IN
       /\ profiles' = IF created THEN {[onboarding_complete |-> FALSE]} ELSE profiles
       /\ IF net = "ok" /\ created
          THEN /\ dialog' = [dialog EXCEPT ![d] =
                    [kind |-> "Registration Successful", id |-> 0]]
               /\ alert' = alert
          ELSE /\ dialog' = dialog
               /\ alert' = [alert EXCEPT ![d] =
                    IF net = "ok" THEN <<"Registration Failed">>
                    ELSE <<"Error", "An unexpected error occurred">>]
    /\ pending' = [pending EXCEPT ![d] = @ \ {q}]
    /\ loading' = [loading EXCEPT ![d] = FALSE]
    /\ UNCHANGED <<inventory, user_preferences, recipeTable, session, auth, screen,
                   saving, deleting, cooking, recipe, lists, routed, cooked>>

\* "Go to Login" on the success alert: signOut and router.push('/login').
GoToLogin(d) ==
  /\ dialog[d].kind = "Registration Successful"
  /\ dialog' = [dialog EXCEPT ![d] = NoDialog]
  /\ session' = [session EXCEPT ![d] = FALSE]
  /\ auth' = auth
  /\ screen' = [screen EXCEPT ![d] = "login"]
  /\ UNCHANGED <<db, pending, alert, flags, recipe, lists, routed, cooked>>

handleLogin(d) ==
  /\ screen[d] = "login"
  /\ ~loading[d]
  /\ Idle(d)
  /\ CanSend(d)
  /\ loading' = [loading EXCEPT ![d] = TRUE]
  /\ pending' = [pending EXCEPT ![d] = @ \cup
       {[op |-> "signIn", screen |-> "login", mounted |-> TRUE]}]
  /\ UNCHANGED <<db, session, auth, screen, dialog, alert, saving, deleting, cooking,
                 recipe, lists, routed, cooked>>

\* What the awaits of handleLogin can meet: the sign-in is rejected, a call
\* throws, getUser yields no user, the profile read fails, all succeed.
LoginOutcomes == {"rejected", "thrown", "no_user", "no_profile", "ok"}

\* The first onboarding step the stored data does not meet.
FirstUnmetStep ==
  IF Cardinality(ingredients) < 3 THEN "onboarding/ingredients"
  ELSE IF Cardinality(utensils) < 1 THEN "onboarding/utensils"
  ELSE IF ~\E f \in user_preferences : isFormValid(f) THEN "onboarding/tastes"
  ELSE IF recipes = {} THEN "onboarding/recipes"
  ELSE "dashboard"

\* The profile handleLogin holds after its select (null: the empty set).
LoginProfile(outcome) == IF outcome = "ok" THEN profiles ELSE {}

\* (mutant) handleLogin resumes onboarding at the first unmet step.
LoginRouteResume(profile) ==
  IF \E p \in profile : p.onboarding_complete THEN "dashboard"
  ELSE FirstUnmetStep

\* The screen handleLogin pushes for the profile it read.
LoginRoute(profile) ==
  IF \E p \in profile : p.onboarding_complete THEN "dashboard"
  ELSE "onboarding/ingredients"

SignIn(d, outcome) ==
  \E q \in pending[d] :
    /\ q.op = "signIn"
    /\ outcome \in {"ok", "no_profile", "no_user"} => profiles # {}
    /\ session' = [session EXCEPT ![d] = @ \/ outcome \in {"ok", "no_profile", "no_user"}]
    /\ auth' = auth
    /\ alert' = [alert EXCEPT ![d] =
         CASE outcome = "rejected" -> <<"Login Failed">>
           [] outcome = "thrown" -> <<"Error", "An unexpected error occurred">>
           [] OTHER -> @]
    /\ IF outcome \in {"ok", "no_profile"}
       THEN LET to == LoginRoute(LoginProfile(outcome)) IN
            /\ routed' = [routed EXCEPT ![d] =
                 [to |-> to, complete |-> OnboardingComplete, step |-> FirstUnmetStep]]
            /\ IF to = "dashboard"
               THEN /\ MountDashboard(d, pending[d] \ {q})
                    /\ UNCHANGED ingredientsList
               ELSE /\ MountIngredients(d, pending[d] \ {q})
                    /\ UNCHANGED <<deleting, recipesList>>
       ELSE /\ pending' = [pending EXCEPT ![d] = @ \ {q}]
            /\ loading' = [loading EXCEPT ![d] = FALSE]
            /\ UNCHANGED <<screen, deleting, recipesList, ingredientsList, routed>>
    /\ UNCHANGED <<db, dialog, saving, cooking, recipe, utensilsList, generated, preferences,
                   cooked>>

\* ------------------------------------------------------- specification
NoRoute == [to |-> "", complete |-> FALSE, step |-> ""]

\* Every device shows the same screen, with the same requests in flight and
\* nothing else going on.
InitDevices(signedIn, scr, busy, reqs) ==
  /\ session = [d \in Devices |-> signedIn]
  /\ auth = [d \in Devices |-> InitialAuth]
  /\ screen = [d \in Devices |-> scr]
  /\ dialog = [d \in Devices |-> NoDialog]
  /\ pending = [d \in Devices |-> reqs]
  /\ alert = [d \in Devices |-> NoAlert]
  /\ loading = [d \in Devices |-> busy]
  /\ saving = [d \in Devices |-> ""]
  /\ deleting = [d \in Devices |-> 0]
  /\ cooking = [d \in Devices |-> FALSE]
  /\ recipe = [d \in Devices |-> NoRecipe]
  /\ recipesList = [d \in Devices |-> {}]
  /\ ingredientsList = [d \in Devices |-> {}]
  /\ utensilsList = [d \in Devices |-> {}]
  /\ generated = [d \in Devices |-> {}]
  /\ preferences = [d \in Devices |-> DefaultPreferences]
  /\ routed = [d \in Devices |-> NoRoute]
  /\ cooked = [rid \in 1..(MaxRecipeId + 1) |-> 0]

\* Every device starts on the home screen, logged out.
InitClient == InitDevices(FALSE, "index", FALSE, {})

\* Nobody has registered yet.
InitFresh ==
  /\ profiles = {}
  /\ ingredients = {}
  /\ utensils = {}
  /\ user_preferences = {}
  /\ recipes = {}
  /\ nextIngredientId = 1
  /\ nextUtensilId = 1
  /\ nextRecipeId = 1

\* The user registered, entered two ingredients and closed the app.
InitResumed ==
  /\ profiles = {[onboarding_complete |-> FALSE]}
  /\ ingredients = {[id |-> 1, name |-> "Flour", quantity |-> 2, unit |-> "g"],
                    [id |-> 2, name |-> "Sugar", quantity |-> 1, unit |-> "g"]}
  /\ utensils = {}
  /\ user_preferences = {}
  /\ recipes = {}
  /\ nextIngredientId = 3
  /\ nextUtensilId = 1
  /\ nextRecipeId = 1

Init == InitClient /\ (InitFresh \/ InitResumed)

Account(d) ==
  \/ Dismiss(d)
  \/ \E to \in {"login", "register"} : Home(d, to)
  \/ handleRegister(d)
  \/ \E net \in Network : SignUp(d, net)
  \/ GoToLogin(d)
  \/ handleLogin(d)
  \/ \E outcome \in LoginOutcomes : SignIn(d, outcome)

IngredientsScreen(d, names, quantities, units) ==
  \/ \E net \in AuthNetwork : loadIngredients(d, net)
  \/ resetForm(d)
  \/ \E editing \in 0..MaxIngredientId, name \in names,
        quantityText \in quantities, unit \in units :
       handleSaveIngredient(d, editing, name, quantityText, unit)
  \/ \E net \in AuthNetwork : SaveIngredient(d, net)
  \/ handleDeleteIngredient(d)
  \/ DeleteIngredientCancel(d)
  \/ DeleteIngredientPress(d)
  \/ \E net \in Network : DeleteIngredient(d, net)

UtensilsScreen(d) ==
  \/ IngredientsContinue(d)
  \/ \E net \in AuthNetwork : loadUtensils(d, net)
  \/ \E editing \in 0..MaxUtensilId, name \in UtensilTexts :
       handleSaveUtensil(d, editing, name)
  \/ \E net \in AuthNetwork : SaveUtensil(d, net)
  \/ handleDeleteUtensil(d)
  \/ DeleteUtensilCancel(d)
  \/ DeleteUtensilPress(d)
  \/ \E net \in Network : DeleteUtensil(d, net)
  \/ UtensilsContinue(d)

Preferences(d, forms, createForms) ==
  \/ \E net \in AuthNetwork : loadPreferences(d, net)
  \/ \E f \in forms : handleComplete(d, f)
  \/ \E net \in AuthNetwork : SavePreferences(d, net)
  \/ \E f \in createForms : handleSavePreferences(d, f)
  \/ \E net \in AuthNetwork : CreateSavePreferences(d, net)

Recipes(d, outputs) ==
  \/ \E net \in AuthNetwork : generateRecipes(d, net, outputs)
  \/ ViewGeneratedRecipe(d)
  \/ OnboardingSaveRecipe(d)
  \/ DetailSaveRecipe(d)
  \/ CreateSaveRecipe(d)
  \/ \E net \in AuthNetwork : SaveRecipe(d, net)
  \/ \E net \in Network, thrown \in BOOLEAN : MarkOnboardingComplete(d, net, thrown)
  \/ SavedAlertOK(d)
  \/ handleCreateNewRecipe(d)
  \/ \E net \in AuthNetwork : CreateGenerateRecipes(d, net, outputs)

Dashboard(d) ==
  \/ \E net \in AuthNetwork : fetchRecipes(d, net)
  \/ handleDeleteRecipe(d)
  \/ DeleteRecipeCancel(d)
  \/ DeleteRecipePress(d)
  \/ \E net \in Network : DeleteRecipe(d, net)
  \/ handleViewRecipe(d)

Cooking(d) ==
  \/ SavedRecipeBack(d)
  \/ handleCookRecipe(d)
  \/ CookCancel(d)
  \/ CookPress(d)
  \/ \E net \in Network : CookRecipe(d, net)

\* One device through every flow of the application.  On the ingredient form
\* the user enters the third ingredient; on the create-recipe screen the user
\* saves the preferences form without filling it in.
Next ==
  \E d \in {"d1"} :
    \/ Account(d)
    \/ IngredientsScreen(d, {"Eggs"}, {"1"}, {"g"})
    \/ UtensilsScreen(d)
    \/ Preferences(d, PreferenceForms, CreatePreferenceForms \ PreferenceForms)
    \/ Recipes(d, {{Cake, Syrup}})
    \/ Dashboard(d)
    \/ Cooking(d)

Spec == Init /\ [][Next]_vars

\* Every request in flight is answered: the awaited call of each handler
\* settles and the handler runs to its end, whatever else is in flight.
Settles(d) ==
  /\ WF_vars(\E net \in Network : SignUp(d, net))
  /\ WF_vars(\E outcome \in LoginOutcomes : SignIn(d, outcome))
  /\ WF_vars(\E net \in AuthNetwork : loadIngredients(d, net))
  /\ WF_vars(\E net \in AuthNetwork : SaveIngredient(d, net))
  /\ WF_vars(\E net \in AuthNetwork : loadUtensils(d, net))
  /\ WF_vars(\E net \in AuthNetwork : SaveUtensil(d, net))
  /\ WF_vars(\E net \in AuthNetwork : loadPreferences(d, net))
  /\ WF_vars(\E net \in AuthNetwork : SavePreferences(d, net))
  /\ WF_vars(\E net \in AuthNetwork : generateRecipes(d, net, {{Cake, Syrup}}))
  /\ WF_vars(\E net \in AuthNetwork : SaveRecipe(d, net))
  /\ WF_vars(\E net \in Network, thrown \in BOOLEAN : MarkOnboardingComplete(d, net, thrown))
  /\ WF_vars(\E net \in AuthNetwork : fetchRecipes(d, net))
  /\ WF_vars(\E net \in Network : DeleteRecipe(d, net))
  /\ WF_vars(\E net \in Network : CookRecipe(d, net))

\* One device from registration or login through onboarding to the
\* dashboard and a cook: the handlers that set an in-flight flag.
NextLive ==
  \E d \in {"d1"} :
    \/ Account(d)
    \/ \E net \in AuthNetwork : loadIngredients(d, net)
    \/ \E name \in {"Eggs", "Flour"} : handleSaveIngredient(d, 0, name, "1", "g")
    \/ \E net \in AuthNetwork : SaveIngredient(d, net)
    \/ IngredientsContinue(d)
    \/ \E net \in AuthNetwork : loadUtensils(d, net)
    \/ handleSaveUtensil(d, 0, "Pan")
    \/ \E net \in AuthNetwork : SaveUtensil(d, net)
    \/ UtensilsContinue(d)
    \/ \E net \in AuthNetwork : loadPreferences(d, net)
    \/ \E f \in PreferenceForms : handleComplete(d, f)
    \/ \E net \in AuthNetwork : SavePreferences(d, net)
    \/ \E net \in AuthNetwork : generateRecipes(d, net, {{Cake, Syrup}})
    \/ OnboardingSaveRecipe(d)
    \/ \E net \in AuthNetwork : SaveRecipe(d, net)
    \/ \E net \in Network, thrown \in BOOLEAN : MarkOnboardingComplete(d, net, thrown)
    \/ SavedAlertOK(d)
    \/ Dashboard(d)
    \/ Cooking(d)

\* ... where every awaited call settles: it resolves, it resolves with an
\* error, or it throws.
SpecLive == Init /\ [][NextLive]_vars /\ Settles("d1")

\* -- AuthProvider
\* The auth library changes its session (sign-in, sign-out, token refresh) and
\* queues the event for the subscribed listener.
AuthStateChange(d, s) ==
  /\ auth[d].emitted < MaxEvents
  /\ auth' = [auth EXCEPT ![d].current = s,
                          ![d].events = Append(@, s),
                          ![d].emitted = @ + 1]
  /\ UNCHANGED <<db, session, screen, dialog, pending, alert, flags, recipe, lists,
                 routed, cooked>>

\* supabase.auth.getSession() reads the session the library holds.
getSessionRead(d) ==
  /\ auth[d].getSession = <<"called">>
  /\ auth' = [auth EXCEPT ![d].getSession = <<"read", auth[d].current>>]
  /\ UNCHANGED <<db, session, screen, dialog, pending, alert, flags, recipe, lists,
                 routed, cooked>>

\* .then(({ data: { session } }) => { setSession; setUser; setLoading(false) })
getSessionThen(d) ==
  /\ Len(auth[d].getSession) = 2
  /\ auth' = [auth EXCEPT ![d].session = auth[d].getSession[2],
                          ![d].user = UserOf(auth[d].getSession[2]),
                          ![d].loading = FALSE,
                          ![d].getSession = <<"delivered">>]
  /\ UNCHANGED <<db, session, screen, dialog, pending, alert, flags, recipe, lists,
                 routed, cooked>>

\* onAuthStateChange((_event, session) => { setSession; setUser;
\* setLoading(false) }): the listener is called with the oldest queued event.
onAuthStateChange(d) ==
  /\ auth[d].events # <<>>
  /\ LET s == Head(auth[d].events) IN
     auth' = [auth EXCEPT ![d].session = s,
                          ![d].user = UserOf(s),
                          ![d].loading = FALSE,
                          ![d].events = Tail(@),
                          ![d].lastEvent = <<s>>]
  /\ UNCHANGED <<db, session, screen, dialog, pending, alert, flags, recipe, lists,
                 routed, cooked>>

NextAuth ==
  \E d \in Devices :
    \/ \E s \in Sessions : AuthStateChange(d, s)
    \/ getSessionRead(d)
    \/ getSessionThen(d)
    \/ onAuthStateChange(d)

SpecAuth == Init /\ [][NextAuth]_vars

\* -- the dashboard and the saved recipes, on every device the user has
\* The user finished onboarding; every device has just opened the dashboard.
SavedRecipe(id, g) ==
  [id |-> id, title |-> g.title, ingredients |-> g.ingredients, is_used |-> FALSE]

StockedFlour == {[id |-> 1, name |-> "Flour", quantity |-> 2, unit |-> "g"]}
StockedSugar == {{}, {[id |-> 2, name |-> "Sugar", quantity |-> 1, unit |-> "g"]}}
StockedEggs == {[id |-> 3, name |-> "Eggs", quantity |-> 1, unit |-> "g"]}

InitCook ==
  /\ InitDevices(TRUE, "dashboard", TRUE,
       {[op |-> "fetchRecipes", screen |-> "dashboard", mounted |-> TRUE]})
  /\ profiles = {[onboarding_complete |-> TRUE]}
  /\ \E sugar \in StockedSugar :
       ingredients = StockedFlour \cup sugar \cup StockedEggs
  /\ utensils = {[id |-> 1, name |-> "Pan"]}
  /\ user_preferences \in {{f} : f \in {g \in PreferenceForms : isFormValid(g)}}
  /\ recipes = {SavedRecipe(1, Pancakes), SavedRecipe(2, Cake)}
  /\ nextIngredientId = 4
  /\ nextUtensilId = 2
  /\ nextRecipeId = 3

NextCook ==
  \E d \in Devices :
    \/ Dismiss(d)
    \/ \E net \in AuthNetwork : fetchRecipes(d, net)
    \/ handleViewRecipe(d)
    \/ Cooking(d)

SpecCook == InitCook /\ [][NextCook]_vars

\* Replies of every shape the handler can be resumed with: a transport
\* error, no text, the texts of the function, and texts that mention success
\* elsewhere than at the start.
CookReplies ==
  {Failure,
   [error |-> FALSE, data |-> <<>>],
   [error |-> FALSE, data |-> <<"Success", "Ingredients have been subtracted.">>],
   [error |-> FALSE, data |-> <<"Error", "Recipe already used">>],
   [error |-> FALSE, data |-> <<"Error", "no", "Success">>],
   [error |-> TRUE, data |-> <<"Success">>]}

NextReplies ==
  \E d \in Devices :
    \/ Dismiss(d)
    \/ \E net \in AuthNetwork : fetchRecipes(d, net)
    \/ handleViewRecipe(d)
    \/ SavedRecipeBack(d)
    \/ handleCookRecipe(d)
    \/ CookCancel(d)
    \/ CookPress(d)
    \/ \E reply \in CookReplies : CookReplied(d, reply)

SpecReplies == InitCook /\ [][NextReplies]_vars

\* -- the ingredient inventory
\* The user has the ingredients screen open, which is loading the one or two
\* ingredients stored so far.
InitInventory ==
  /\ InitDevices(TRUE, "onboarding/ingredients", FALSE,
       {[op |-> "loadIngredients", screen |-> "onboarding/ingredients",
         mounted |-> TRUE]})
  /\ profiles = {[onboarding_complete |-> FALSE]}
  /\ ingredients \in
       {{[id |-> 1, name |-> "Flour", quantity |-> 2, unit |-> "g"]},
        {[id |-> 1, name |-> "Flour", quantity |-> 2, unit |-> "g"],
         [id |-> 2, name |-> "Sugar", quantity |-> 1, unit |-> "g"]}}
  /\ utensils = {}
  /\ user_preferences = {}
  /\ recipes = {}
  /\ nextIngredientId = 3
  /\ nextUtensilId = 1
  /\ nextRecipeId = 1

\* The ingredient form on one device: add and edit, with valid and invalid
\* entries.
NextInventory ==
  \E d \in {"d1"} :
    \/ Dismiss(d)
    \/ \E net \in AuthNetwork : loadIngredients(d, net)
    \/ resetForm(d)
    \/ \E editing \in 0..MaxIngredientId, name \in {"Flour", "Eggs", ""},
          quantityText \in {"1", "abc"}, unit \in {"kg", ""} :
         handleSaveIngredient(d, editing, name, quantityText, unit)
    \/ \E net \in AuthNetwork : SaveIngredient(d, net)

SpecInventory == InitInventory /\ [][NextInventory]_vars

\* The cards of the ingredients screen on one device: the user deletes
\* ingredients, and may tap a second card while a delete is in flight.
NextReentry ==
  \E d \in {"d1"} :
    \/ \E net \in AuthNetwork : loadIngredients(d, net)
    \/ handleDeleteIngredient(d)
    \/ DeleteIngredientCancel(d)
    \/ Cardinality(pending[d]) <= MaxPending /\ DeleteIngredientSend(d)
    \/ \E net \in Network : DeleteIngredient(d, net)

SpecReentry == InitInventory /\ [][NextReentry]_vars

\* The ingredient and utensil forms on one device, filled in with acceptable
\* and unacceptable entries: blank and missing names, quantities that are
\* zero or no number, no unit chosen.
NextForms ==
  \E d \in {"d1"} :
    \/ Dismiss(d)
    \/ IngredientsScreen(d, {"Eggs", " ", ""}, {"1", "0", "abc", ""}, {"g", ""})
    \/ UtensilsScreen(d)

SpecForms == InitInventory /\ [][NextForms]_vars

\* -- coming back to an unfinished onboarding
\* The user entered ingredients, a utensil and possibly the preferences, left
\* before saving a recipe, and has just been routed to the ingredients screen
\* again on every device.
InitReturning ==
  /\ InitDevices(TRUE, "onboarding/ingredients", FALSE,
       {[op |-> "loadIngredients", screen |-> "onboarding/ingredients",
         mounted |-> TRUE]})
  /\ profiles = {[onboarding_complete |-> FALSE]}
  /\ ingredients = StockedFlour \cup StockedEggs \cup
       {[id |-> 2, name |-> "Sugar", quantity |-> 1, unit |-> "g"]}
  /\ utensils = {[id |-> 1, name |-> "Pan"]}
  /\ user_preferences \in {{}} \cup {{f} : f \in {g \in PreferenceForms : isFormValid(g)}}
  /\ recipes = {}
  /\ nextIngredientId = 4
  /\ nextUtensilId = 2
  /\ nextRecipeId = 1

\* The user walks through the three onboarding screens again.
NextReturning ==
  \E d \in Devices :
    \/ Dismiss(d)
    \/ \E net \in AuthNetwork : loadIngredients(d, net)
    \/ IngredientsContinue(d)
    \/ \E net \in AuthNetwork : loadUtensils(d, net)
    \/ UtensilsContinue(d)
    \/ \E net \in AuthNetwork : loadPreferences(d, net)
    \/ \E f \in PreferenceForms : handleComplete(d, f)
    \/ \E net \in AuthNetwork : SavePreferences(d, net)

SpecReturning == InitReturning /\ [][NextReturning]_vars

\* -- cooking on one device while the inventory is edited on another
\* The first device has just opened the dashboard; the second has had the
\* ingredients screen open since before onboarding was completed.
InitStock ==
  /\ session = [d \in Devices |-> TRUE]
  /\ auth = [d \in Devices |-> InitialAuth]
  /\ screen = [d \in Devices |->
       IF d = "d1" THEN "dashboard" ELSE "onboarding/ingredients"]
  /\ pending = [d \in Devices |->
       IF d = "d1"
       THEN {[op |-> "fetchRecipes", screen |-> "dashboard", mounted |-> TRUE]}
       ELSE {[op |-> "loadIngredients", screen |-> "onboarding/ingredients",
              mounted |-> TRUE]}]
  /\ loading = [d \in Devices |-> d = "d1"]
  /\ dialog = [d \in Devices |-> NoDialog]
  /\ alert = [d \in Devices |-> NoAlert]
  /\ saving = [d \in Devices |-> ""]
  /\ deleting = [d \in Devices |-> 0]
  /\ cooking = [d \in Devices |-> FALSE]
  /\ recipe = [d \in Devices |-> NoRecipe]
  /\ recipesList = [d \in Devices |-> {}]
  /\ ingredientsList = [d \in Devices |-> {}]
  /\ utensilsList = [d \in Devices |-> {}]
  /\ generated = [d \in Devices |-> {}]
  /\ preferences = [d \in Devices |-> DefaultPreferences]
  /\ routed = [d \in Devices |-> NoRoute]
  /\ cooked = [rid \in 1..(MaxRecipeId + 1) |-> 0]
  /\ profiles = {[onboarding_complete |-> TRUE]}
  /\ ingredients = StockedFlour \cup {[id |-> 2, name |-> "Sugar", quantity |-> 1, unit |-> "g"]}
  /\ utensils = {[id |-> 1, name |-> "Pan"]}
  /\ user_preferences = {CHOOSE f \in PreferenceForms : isFormValid(f)}
  /\ recipes = {SavedRecipe(1, Pancakes), SavedRecipe(2, Cake)}
  /\ nextIngredientId = 3
  /\ nextUtensilId = 2
  /\ nextRecipeId = 3

NextStock ==
  \/ \E d \in {"d1"} :
       \/ \E net \in AuthNetwork : fetchRecipes(d, net)
       \/ handleViewRecipe(d)
       \/ Cooking(d)
  \/ \E d \in {"d2"} :
       \/ \E net \in AuthNetwork : loadIngredients(d, net)
       \/ resetForm(d)
       \/ \E editing \in 0..1, name \in {"Flour", "Eggs"},
             quantityText \in {"1", "0", "-1", "abc"} :
            handleSaveIngredient(d, editing, name, quantityText, "g")
       \/ \E net \in AuthNetwork : SaveIngredient(d, net)
  \/ \E d \in Devices : Dismiss(d)

SpecStock == InitStock /\ [][NextStock]_vars

\* -- login
\* A registered user opens the login screen.  What is stored is what an
\* earlier session left: a user who has not completed onboarding got as far
\* as any of its steps; a user who has completed it has the inventory and
\* the preferences it required, and may have deleted the recipe since.
ValidPreferences == {f \in PreferenceForms : isFormValid(f)}

InitLogin ==
  /\ InitDevices(FALSE, "login", FALSE, {})
  /\ profiles \in {{[onboarding_complete |-> FALSE]}, {[onboarding_complete |-> TRUE]}}
  /\ ingredients \in
       {StockedFlour \cup StockedEggs,
        StockedFlour \cup StockedEggs
          \cup {[id |-> 2, name |-> "Sugar", quantity |-> 1, unit |-> "g"]}}
  /\ utensils \in {{}, {[id |-> 1, name |-> "Pan"]}}
  /\ user_preferences \in {{}} \cup {{f} : f \in CreatePreferenceForms}
  /\ recipes \in {{}, {SavedRecipe(1, Pancakes)}}
  /\ OnboardingComplete =>
       /\ Cardinality(ingredients) = 3
       /\ utensils # {}
       /\ user_preferences # {}
  /\ nextIngredientId = 4
  /\ nextUtensilId = 2
  /\ nextRecipeId = 2

NextLogin ==
  \E d \in {"d1"} :
    \/ Dismiss(d)
    \/ handleLogin(d)
    \/ \E outcome \in LoginOutcomes : SignIn(d, outcome)
    \/ \E net \in AuthNetwork : fetchRecipes(d, net)
    \/ \E net \in AuthNetwork : loadIngredients(d, net)

SpecLogin == InitLogin /\ [][NextLogin]_vars

\* The same user logs in on every device; nothing is written in between.
NextGate ==
  \E d \in Devices :
    \/ Dismiss(d)
    \/ handleLogin(d)
    \/ \E outcome \in LoginOutcomes : SignIn(d, outcome)
    \/ \E net \in AuthNetwork : fetchRecipes(d, net)
    \/ \E net \in AuthNetwork : loadIngredients(d, net)

SpecGate == InitLogin /\ [][NextGate]_vars

\* ----------------------------------------------------------------- claims
\* The cook call q that the saved-recipe screen of device d has in flight for
\* the recipe it shows is executed by the database in this step.
CookExecutes(d, q) ==
  /\ q.mounted
  /\ session[d]
  /\ \E net \in {"ok", "lost_response"} : CookCall(d, q, net)

\* ... and its reply reaches the handler.
CookAnswered(d, q) == q.mounted /\ session[d] /\ CookCall(d, q, "ok")

Stored(rid) == CHOOSE r \in RecipeRows(rid) : TRUE

Requires(r) == {r.ingredients[i] : i \in 1..Len(r.ingredients)}

\* The stored recipe rid is not used yet and every ingredient it requires has
\* a same-named inventory row holding at least the required quantity.
Cookable(rid) ==
  /\ RecipeRows(rid) # {}
  /\ ~Stored(rid).is_used
  /\ \A item \in Requires(Stored(rid)) :
       /\ ~isNaN(numeric(item.quantity))
       /\ \E g \in ingredients : g.name = item.name /\ g.quantity >= numeric(item.quantity)

\* The stored recipe rid is not used yet and some ingredient it requires is
\* missing from the inventory or stocked below the required quantity.
Short(rid) ==
  /\ RecipeRows(rid) # {}
  /\ ~Stored(rid).is_used
  /\ \E item \in Requires(Stored(rid)) :
       /\ ~isNaN(numeric(item.quantity))
       /\ \A g \in ingredients : g.name = item.name => g.quantity < numeric(item.quantity)

\* What the recipe rid requires of the ingredient called name.
Needs(rid, name) ==
  IF \E item \in Requires(Stored(rid)) : item.name = name
  THEN numeric((CHOOSE item \in Requires(Stored(rid)) : item.name = name).quantity)
  ELSE 0

AlreadyUsedAlert == <<"Error", "Error", "Recipe already used">>

\* C1: when the database executes a cook call for a stored, not yet used
\* recipe whose every required ingredient has a same-named inventory row with
\* at least the required quantity, every inventory row afterwards holds its
\* previous quantity minus what the recipe requires of it (nothing for an
\* ingredient the recipe does not list), the recipe is marked used, and no
\* other recipe and no utensil is altered.
C1_CookSubtracts ==
  [][\A d \in Devices : \A q \in pending[d] :
       (CookExecutes(d, q) /\ Cookable(recipe[d].id)) =>
         /\ Cardinality(ingredients') = Cardinality(ingredients)
         /\ \A g \in ingredients :
              [g EXCEPT !.quantity = g.quantity - Needs(recipe[d].id, g.name)]
                \in ingredients'
         /\ recipes' = (recipes \ {Stored(recipe[d].id)})
                          \cup {[Stored(recipe[d].id) EXCEPT !.is_used = TRUE]}
         /\ utensils' = utensils]_vars

\* A cook has succeeded: the recipe is used, the handler reported success
\* and an ingredient is down to what the recipe left of it.
C1_Witness ==
  \E d \in Devices :
    /\ alert[d][1] = "Success"
    /\ \E r \in recipes : r.is_used /\ cooked[r.id] = 1
    /\ \E g \in ingredients : g.name = "Flour" /\ g.quantity = 0

\* C2: when the database executes a cook call for a not yet used recipe of
\* which some required ingredient is missing or stocked below the required
\* quantity, no ingredient quantity changes and the recipe stays unused.
C2_InsufficientChangesNothing ==
  [][\A d \in Devices : \A q \in pending[d] :
       (CookExecutes(d, q) /\ Short(recipe[d].id)) =>
         /\ ingredients' = ingredients
         /\ recipes' = recipes
         /\ ~Stored(recipe[d].id).is_used]_vars

\* The handler shows the shortfall the database reported, for a recipe that
\* needs two ingredients of which the other one is in stock.
C2_Witness ==
  \E d \in Devices :
    /\ Len(alert[d]) = 4
    /\ alert[d][3] = "Insufficient ingredient"
    /\ \E r \in recipes : ~r.is_used /\ Len(r.ingredients) = 2 /\ Short(r.id)
    /\ \E g \in ingredients : g.name = "Flour" /\ g.quantity = 2

\* C3: a cook call for a recipe whose is_used is already true changes no
\* ingredient and no recipe, and the reply the handler receives is the
\* already-used failure.
C3_AlreadyUsed ==
  [][\A d \in Devices : \A q \in pending[d] :
       /\ (CookExecutes(d, q) /\ RecipeRows(recipe[d].id) # {}
              /\ Stored(recipe[d].id).is_used) =>
            (ingredients' = ingredients /\ recipes' = recipes)
       /\ (CookAnswered(d, q) /\ RecipeRows(recipe[d].id) # {}
              /\ Stored(recipe[d].id).is_used) =>
            alert'[d] = AlreadyUsedAlert]_vars

\* A device whose screen still shows the recipe as unused was told that the
\* recipe is already used.
C3_Witness ==
  \E d \in Devices :
    /\ alert[d] = AlreadyUsedAlert
    /\ screen[d] = "saved-recipe-detail"
    /\ ~recipe[d].is_used
    /\ Stored(recipe[d].id).is_used

\* C4: however many cook calls are made for a recipe, from one device after
\* the other or from several at once, its ingredients are subtracted at most
\* once: a call executed after the subtraction changes no ingredient, and
\* when its reply arrives it is the already-used failure.
C4_SubtractedAtMostOnce ==
  [][/\ \A rid \in DOMAIN cooked : cooked'[rid] <= 1
     /\ \A d \in Devices : \A q \in pending[d] :
          (q.op = "cook" /\ cooked[q.recipe_id_to_use] >= 1
             /\ RecipeRows(q.recipe_id_to_use) # {}) =>
            /\ (\E net \in Network : CookCall(d, q, net)) =>
                 ingredients' = ingredients
            /\ (session[d] /\ CookCall(d, q, "ok")) =>
                 alert'[d] = AlreadyUsedAlert]_vars

\* Two devices cooked the same recipe: one was told of the success, the
\* other that the recipe is already used, and it was subtracted once.
C4_Witness ==
  \E a, b \in Devices :
    /\ a # b
    /\ alert[a][1] = "Success"
    /\ alert[b] = AlreadyUsedAlert
    /\ \E rid \in DOMAIN cooked : cooked[rid] = 1 /\ recipe[b].id = rid

\* The ingredient write q of device d is executed by the database in this step.
SaveExecutes(d, q) ==
  \E net \in {"ok", "lost_response"} : SaveIngredientCall(d, q, net)

\* The row the user has under the name of the write q.
Named(q) == CHOOSE g \in StockRows(q.data.name) : TRUE

GenericSaveFailure == <<"Error", "Failed to save ingredient">>

C6_DuplicateOnCreate ==
  [][\A d \in Devices : \A q \in pending[d] :
       /\ (SaveExecutes(d, q) /\ q.editing = 0 /\ StockRows(q.data.name) # {}) =>
            ingredients' = ingredients
       /\ (SaveIngredientCall(d, q, "ok") /\ q.editing = 0
              /\ StockRows(q.data.name) # {}) =>
            /\ alert'[d][1] = "Duplicate Ingredient"
            /\ alert'[d] # GenericSaveFailure]_vars

\* The only ingredient left is the stored Flour, untouched, and the user was
\* told that the ingredient exists: with a single row only a create can
\* collide.
C6_Witness ==
  \E d \in Devices :
    /\ alert[d][1] = "Duplicate Ingredient"
    /\ ingredients = {[id |-> 1, name |-> "Flour", quantity |-> 2, unit |-> "g"]}
    /\ pending[d] = {}

\* The profile updates among the requests reqs, each with the screen whose
\* handler issued it and the recipe saved before it.
Marks(reqs) ==
  {[screen |-> q.screen, recipe |-> q.recipe] :
     q \in {x \in reqs : x.op = "markOnboardingComplete"}}

\* The profile update of a recipe save completes in this step.
MarkCompletes ==
  \E d \in Devices : \E net \in Network : \E thrown \in BOOLEAN :
    MarkOnboardingComplete(d, net, thrown)

\* The profile updates that handlers of device d issue in this step.
MarksIssued(d) == Marks(pending'[d]) \ Marks(pending[d])

\* C7: once the onboarding_complete flag of the user is true, no step of any
\* client flow (register, login, the onboarding screens, preference save,
\* recipe save, recipe delete, cook) leaves it false.
C7_FlagNeverReset ==
  [][OnboardingComplete => OnboardingComplete']_vars

\* The user completed onboarding, logged in again, cooked a recipe and
\* deleted one, and the flag is still true.
C7_Witness ==
  /\ OnboardingComplete
  /\ \E rid \in DOMAIN cooked : cooked[rid] = 1
  /\ Cardinality(recipes) < nextRecipeId - 1
  /\ \E d \in Devices : Marks(pending[d]) # {}

\* C8 (as stated): the flag is written once: it becomes true only by the
\* profile update of a recipe save, never by the preferences save of the
\* tastes screen, and no recipe save issues that update again once the flag
\* is true.
C8_FlagWrittenOnce ==
  [][/\ (~OnboardingComplete /\ OnboardingComplete') => MarkCompletes
     /\ \A d \in Devices : MarksIssued(d) # {} => ~OnboardingComplete]_vars

\* C8 (amended): the flag becomes true only by the profile update that
\* handleSaveRecipe issues, on the onboarding recipes screen or on the recipe
\* detail screen, right after its insert of the recipe has succeeded; the
\* preferences save of the tastes screen never sets it.  Every later save
\* from these two screens issues the update again, which leaves the flag true.
C8_FlagSetByRecipeSave ==
  [][/\ (~OnboardingComplete /\ OnboardingComplete') => MarkCompletes
     /\ \A d \in Devices : \A q \in MarksIssued(d) :
          /\ q.screen \in {"onboarding/recipes", "recipe-detail"}
          /\ nextRecipeId' = nextRecipeId + 1
          /\ \E r \in recipes' \ recipes : r.title = q.recipe.title
     /\ \A d \in Devices : \A q \in pending[d] :
          (SaveRecipeCall(d, q, "ok") /\ q.screen # "create-recipe") =>
            [screen |-> q.screen, recipe |-> q.recipe] \in Marks(pending'[d])]_vars

\* The user completed onboarding with a first recipe and then saved a second
\* one from the recipe detail screen, whose handler has issued the update
\* once more.
C8_Witness ==
  /\ OnboardingComplete
  /\ Cardinality(recipes) = 2
  /\ \E d \in Devices : \E q \in Marks(pending[d]) : q.screen = "recipe-detail"

\* C9: whenever handleLogin has routed the user after a successful sign-in,
\* the destination is the dashboard if the stored onboarding_complete flag
\* was true and onboarding if it was false; in particular a user whose flag
\* is true is not routed into onboarding.
C9_FlagDecidesDestination ==
  \A d \in Devices :
    routed[d].to # "" => (routed[d].complete <=> routed[d].to = "dashboard")

\* C10 (as stated): whenever handleLogin has routed a user whose stored flag
\* was false and who has an onboarding step left, the destination is the
\* screen of the first step the stored data does not meet.
C10_RoutedToFirstUnmetStep ==
  \A d \in Devices :
    (routed[d].to # "" /\ ~routed[d].complete /\ routed[d].step # "dashboard") =>
      routed[d].to = routed[d].step

\* C10 (amended): whenever handleLogin has routed a user whose stored flag
\* was false, the destination is the ingredients screen, whatever is stored;
\* it is the first unmet step only if fewer than 3 ingredients are stored.
C10_RoutedToIngredients ==
  \A d \in Devices :
    (routed[d].to # "" /\ ~routed[d].complete) =>
      /\ routed[d].to = "onboarding/ingredients"
      /\ (routed[d].to = routed[d].step <=> Cardinality(ingredients) < 3)

\* A user with three ingredients and no utensil logged in and is on the
\* ingredients screen, with the stored ingredients listed.
C10_Witness ==
  \E d \in Devices :
    /\ routed[d].to = "onboarding/ingredients"
    /\ ~routed[d].complete
    /\ routed[d].step = "onboarding/utensils"
    /\ screen[d] = "onboarding/ingredients"
    /\ ingredientsList[d] = ingredients

\* C11: the gate check of login is idempotent: when it has run twice (once
\* on each device of the user) and nothing was written to the profile, the
\* inventory, the preferences or the recipes in between, both runs chose the
\* same destination screen.
C11_GateIdempotent ==
  \A d1 \in Devices : \A d2 \in Devices :
    (routed[d1].to # "" /\ routed[d2].to # "") => routed[d1].to = routed[d2].to

\* The screen of device d is at rest: nothing is in flight and no dialog or
\* notification is open.
AtRest(d) == pending[d] = {} /\ Idle(d)

Mutations(d) ==
  {q \in pending[d] :
     q.op \in {"cook", "saveIngredient", "saveUtensil", "savePreferences",
               "saveRecipe", "markOnboardingComplete", "deleteIngredient",
               "deleteUtensil", "deleteRecipe"}}

\* C13: a device never has more than one cook, save or delete request in
\* flight: while one is in flight the control that would start another is
\* disabled.
C13_OneMutationInFlight ==
  \A d \in Devices : Cardinality(Mutations(d)) <= 1

\* A save, delete or cook request of device d fails in this step: it does
\* not reach the database, its reply is lost, or the handler finds no user.
FailedMutation(d) ==
  \/ \E net \in AuthNetwork \ {"ok"} :
       \/ SaveIngredient(d, net)
       \/ SaveUtensil(d, net)
       \/ SavePreferences(d, net)
       \/ CreateSavePreferences(d, net)
       \/ SaveRecipe(d, net)
  \/ \E net \in Network \ {"ok"} :
       \/ DeleteIngredient(d, net)
       \/ DeleteUtensil(d, net)
       \/ DeleteRecipe(d, net)
       \/ CookRecipe(d, net)
       \/ \E thrown \in BOOLEAN : MarkOnboardingComplete(d, net, thrown)

\* C14: every failed save, delete or cook (the profile update of a recipe
\* save included) leaves a notification on the screen, and none is followed
\* by the success message.
C14_FailureNotified ==
  [][\A d \in Devices :
       FailedMutation(d) =>
         /\ alert'[d] # NoAlert
         /\ dialog'[d] = SavedAlert => dialog[d] = SavedAlert]_vars

\* C15: when a cook call is refused because the recipe was already used,
\* the screen that sent it, if it still shows that recipe, shows it as used
\* from then on, so that its cook control is no longer offered.
C15_AlreadyUsedCorrectsScreen ==
  [][\A d \in Devices : \A q \in pending[d] :
       (/\ CookCall(d, q, "ok")
        /\ alert'[d] = AlreadyUsedAlert
        /\ screen'[d] = "saved-recipe-detail"
        /\ recipe'[d].id = q.recipe_id_to_use) =>
         recipe'[d].is_used]_vars

\* The inventory holds a row of the item's name with at least the quantity
\* the recipe requires.
InStock(item) ==
  \E g \in ingredients : g.name = item.name /\ g.quantity >= numeric(item.quantity)

\* C16: when a cook call is answered for a recipe that is short of stock,
\* the notification names one ingredient, and it is the first one, in the
\* order the recipe lists its ingredients, that is missing or stocked below
\* the required quantity.
C16_FirstShortfallShown ==
  [][\A d \in Devices : \A q \in pending[d] :
       (q.op = "cook" /\ Short(q.recipe_id_to_use) /\ CookAnswered(d, q)) =>
         LET r == Stored(q.recipe_id_to_use) IN
         \E i \in 1..Len(r.ingredients) :
           /\ ~InStock(r.ingredients[i])
           /\ \A j \in 1..(i - 1) : InStock(r.ingredients[j])
           /\ alert'[d] =
                <<"Error", "Error", "Insufficient ingredient", r.ingredients[i].name>>]_vars

\* The notification names Flour for the cake, which is short of both flour
\* (listed first) and sugar.
C16_Witness ==
  /\ \E d \in Devices : alert[d] = <<"Error", "Error", "Insufficient ingredient", "Flour">>
  /\ \E r \in recipes :
       /\ r.title = "Cake"
       /\ \A i \in 1..Len(r.ingredients) : ~InStock(r.ingredients[i])

InitialStock == StockedFlour \cup StockedEggs \cup UNION StockedSugar

\* What the recipes stored as used require of the ingredient called name.
UsedUp(name) ==
  LET take(rid) == IF RecipeRows(rid) # {} /\ Stored(rid).is_used
                   THEN Needs(rid, name) ELSE 0
  IN take(1) + take(2)

\* C18: no state that a read can observe shows a cook half done: every
\* inventory row holds its initial quantity less the full requirement of
\* every recipe stored as used, and nothing of a recipe stored as unused; a
\* recipe is stored as used exactly when its ingredients were subtracted.
C18_NoIntermediateState ==
  /\ \A g \in ingredients : \E h \in InitialStock :
       h.id = g.id /\ g.quantity + UsedUp(g.name) = h.quantity
  /\ \A r \in recipes : r.is_used <=> cooked[r.id] = 1

\* A device has read the cake as used, and both flour and sugar are used up.
C18_Witness ==
  /\ \E d \in Devices : \E r \in recipesList[d] : r.title = "Cake" /\ r.is_used
  /\ \A g \in ingredients : g.name \in {"Flour", "Sugar"} => g.quantity = 0
  /\ \E g \in ingredients : g.name = "Sugar"

\* C19: a recipe is stored with is_used false when it is saved; is_used
\* becomes true only in a step in which the database executes a cook call
\* for that recipe and the cook succeeds; once true it stays true while the
\* recipe is stored; no other step changes it.
C19_UsedOnlyByCook ==
  [][\A r2 \in recipes' :
       /\ (\A r \in recipes : r.id # r2.id) => ~r2.is_used
       /\ \A r \in recipes :
            r.id = r2.id =>
              /\ r.is_used => r2.is_used
              /\ (~r.is_used /\ r2.is_used) =>
                   /\ Cookable(r.id)
                   /\ cooked'[r.id] = 1
                   /\ \E d \in Devices : \E q \in pending[d] :
                        /\ q.op = "cook"
                        /\ q.recipe_id_to_use = r.id
                        /\ \E net \in {"ok", "lost_response"} : CookCall(d, q, net)]_vars

\* Of two recipes saved by the user one was cooked and is stored as used;
\* the other is still unused.
C19_Witness ==
  /\ \E r \in recipes : r.is_used /\ cooked[r.id] = 1
  /\ \E r \in recipes : ~r.is_used
  /\ nextRecipeId = 3

\* No request of the device's closed screens is still in flight.
Answered(d) == \A q \in pending[d] : q.mounted

\* C20: when a user who has not completed onboarding opens an onboarding
\* screen and its read of the stored rows is answered, the screen holds what
\* is stored: the ingredients screen lists the stored ingredients, the
\* utensils screen lists the stored utensils, and the preferences form holds
\* the stored diet, tastes and difficulty.
C20_StoredBroughtOver ==
  [][\A d \in Devices :
       (~OnboardingComplete /\ Answered(d)) =>
         /\ loadIngredients(d, "ok") => ingredientsList'[d] = ingredients
         /\ loadUtensils(d, "ok") => utensilsList'[d] = utensils
         /\ loadPreferences(d, "ok") =>
              \A row \in user_preferences : preferences'[d] = row]_vars

GenericUtensilFailure == <<"Error", "Failed to save utensil">>

\* C21: when the create of a utensil under a name the user already has is
\* answered, the user is shown a notification of the collision, not the
\* generic save failure.
C21_UtensilCollisionDistinct ==
  [][\A d \in Devices : \A q \in pending[d] :
       (/\ pending[d] = {q}
        /\ q.op = "saveUtensil"
        /\ q.editing = 0
        /\ UtensilRows(q.data.name) # {}
        /\ SaveUtensil(d, "ok")) =>
         alert'[d] # GenericUtensilFailure]_vars

\* The save requests of the ingredient and utensil forms in flight on d.
InventoryWrites(d) ==
  {q \in pending[d] : q.op \in {"saveIngredient", "saveUtensil"}}

\* C22: no create or edit of an ingredient or a utensil is sent with an empty
\* name, and none of an ingredient is sent with a quantity that is not a
\* positive number or with an empty unit.
C22_OnlyValidWritesSent ==
  \A d \in Devices : \A q \in InventoryWrites(d) :
    /\ q.data.name # ""
    /\ q.op = "saveIngredient" =>
         /\ ~isNaN(q.data.quantity)
         /\ q.data.quantity > 0
         /\ q.data.unit # ""

SuccessAlert ==
  <<"Success", "Ingredients have been subtracted from your inventory. Enjoy your meal!">>

GenericCookFailures ==
  {<<"Error", "Failed to cook recipe. Please try again.">>,
   <<"Error", "Failed to cook recipe. Please check your ingredients.">>}

\* C23: when the cook handler of an open recipe screen is resumed with a
\* reply, it shows the success notification and goes to the dashboard if and
\* only if the reply has no error and its text starts with "Success"; for any
\* other text it stays and shows that text as the error, and for an error or
\* an empty reply it stays and shows a generic failure.
C23_ClassifiedByPrefix ==
  [][\A d \in Devices : \A reply \in CookReplies :
       (CookReplied(d, reply) /\ screen[d] = "saved-recipe-detail") =>
         IF ~reply.error /\ reply.data # <<>> /\ Head(reply.data) = "Success"
         THEN alert'[d] = SuccessAlert /\ screen'[d] = "dashboard"
         ELSE /\ alert'[d] # SuccessAlert
              /\ screen'[d] = "saved-recipe-detail"
              /\ IF reply.error \/ reply.data = <<>>
                 THEN alert'[d] \in GenericCookFailures
                 ELSE alert'[d] = <<"Error">> \o reply.data]_vars

\* One device was told of the success and is back on the dashboard; the
\* other got a text that mentions success after its start and shows it as
\* the error on the recipe screen.
C23_Witness ==
  \E d1, d2 \in Devices :
    /\ alert[d1] = SuccessAlert
    /\ screen[d1] = "dashboard"
    /\ alert[d2] = <<"Error", "Error", "no", "Success">>
    /\ screen[d2] = "saved-recipe-detail"

\* C24: every element of the ingredients array of every stored recipe has a
\* name, a quantity and a unit, and its quantity is a number.
C24_IngredientsStructure ==
  \A r \in recipes : \A i \in 1..Len(r.ingredients) :
    /\ DOMAIN r.ingredients[i] = {"name", "quantity", "unit"}
    /\ r.ingredients[i].quantity \in Int

Destructive == {"deleteIngredient", "deleteUtensil", "deleteRecipe", "cook"}

\* The deletes and cooks that device d sends in this step.
NewlySent(d) ==
  {q \in pending'[d] :
     /\ q.op \in Destructive
     /\ q \notin pending[d]
     /\ [q EXCEPT !.mounted = TRUE] \notin pending[d]}

Confirms(d) ==
  \/ DeleteIngredientPress(d)
  \/ DeleteUtensilPress(d)
  \/ DeleteRecipePress(d)
  \/ CookPress(d)

Cancels(d) ==
  \/ DeleteIngredientCancel(d)
  \/ DeleteUtensilCancel(d)
  \/ DeleteRecipeCancel(d)
  \/ CookCancel(d)

\* C25: a delete of an ingredient, a utensil or a recipe, and a cook, is sent
\* only by the confirming button of its open confirmation dialog; Cancel
\* closes the dialog, sends nothing and leaves the stored and the displayed
\* data as they were.
C25_ConfirmedBeforeSent ==
  [][\A d \in Devices :
       /\ NewlySent(d) # {} => (dialog[d] # NoDialog /\ Confirms(d))
       /\ Cancels(d) =>
            /\ dialog[d] # NoDialog
            /\ dialog'[d] = NoDialog
            /\ pending' = pending
            /\ UNCHANGED <<db, lists, recipe, cooked>>]_vars

\* A confirmed delete of an ingredient is in flight and its dialog is closed.
C25_Witness ==
  \E d \in Devices : \E q \in pending[d] :
    /\ q.op = "deleteIngredient"
    /\ dialog[d] = NoDialog
    /\ \E g \in ingredients : g.id = q.id

\* C26: an item that comes into the displayed list of the ingredients or the
\* utensils screen is stored at that time: an item deleted on the server
\* never reappears in the list.
C26_DeletedNeverReappears ==
  [][\A d \in Devices :
       /\ \A g \in ingredientsList'[d] \ ingredientsList[d] : g \in ingredients'
       /\ \A u \in utensilsList'[d] \ utensilsList[d] : u \in utensils']_vars

\* {!recipe.is_used && <Button onPress={handleCookRecipe}>}: the recipe
\* screen of d shows the cook control.
CookOffered(d) == screen[d] = "saved-recipe-detail" /\ ~recipe[d].is_used

\* C27: the cook control is offered only for a recipe that is stored as not
\* used at that time.
C27_OfferedOnlyWhenUnused ==
  \A d \in Devices :
    CookOffered(d) => \E r \in recipes : r.id = recipe[d].id /\ ~r.is_used

\* C28: whenever the onboarding_complete flag changes from false to true, the
\* user at that moment has at least one saved recipe, a stored preference
\* record with a diet, a taste and a difficulty, at least one utensil and at
\* least three ingredients.
C28_CompleteMeansOnboarded ==
  [][(~OnboardingComplete /\ OnboardingComplete') =>
       /\ recipes' # {}
       /\ \E f \in user_preferences' : isFormValid(f)
       /\ Cardinality(utensils') >= 1
       /\ Cardinality(ingredients') >= 3]_vars

\* C29: every in-flight flag that is set is eventually cleared: loading,
\* saving and deleting never stay set forever, and the cook button of an open
\* recipe screen never stays in its cooking state forever.
C29_FlagsCleared ==
  \A d \in {"d1"} :
    /\ loading[d] ~> ~loading[d]
    /\ (saving[d] # "") ~> (saving[d] = "")
    /\ (deleting[d] # 0) ~> (deleting[d] = 0)
    /\ (screen[d] = "saved-recipe-detail" /\ cooking[d])
         ~> ~(screen[d] = "saved-recipe-detail" /\ cooking[d])

\* The create of an ingredient under a stored name took the duplicate-key
\* return: the notification is shown and loading is cleared.
C29_Witness ==
  \E d \in Devices :
    /\ alert[d][1] = "Duplicate Ingredient"
    /\ ~loading[d]
    /\ pending[d] = {}

\* The initial getSession() result and every event were delivered to d.
AllDelivered(d) ==
  /\ auth[d].getSession = <<"delivered">>
  /\ auth[d].events = <<>>
  /\ auth[d].lastEvent # <<>>

\* C30: once the getSession() result and every auth-state-change event have
\* been delivered, the context's session is the session of the most recent
\* event, user is that session's user, and loading is false.
C30_LatestEventWins ==
  \A d \in Devices :
    AllDelivered(d) =>
      /\ auth[d].session = auth[d].lastEvent[1]
      /\ auth[d].user = UserOf(auth[d].lastEvent[1])
      /\ ~auth[d].loading

====
